---- MODULE Spec2Model ----
(***************************************************************************)
(* Browser-to-browser file transfer: the sender's sendFile loop, the data  *)
(* channel, the receiving WebRTC provider (message queue and handler       *)
(* attachment), the receiver's TransferPage (handleMessage,                *)
(* handleTransferComplete, cleanupChunks), the three storage strategies    *)
(* and the accept-time fallback chain.                                     *)
(*                                                                         *)
(* One action is one event-loop task of the JavaScript program together    *)
(* with every microtask (promise continuation) it triggers, because the    *)
(* program is single-threaded and run-to-completion.                       *)
(***************************************************************************)
EXTENDS Integers, Sequences, FiniteSets, TLC

(***************************************************************************)
(* Program constants.                                                      *)
(***************************************************************************)
CHUNK_SIZE == 65536

BACKPRESSURE_CHUNKS == 10

BUFFER_SIZE == 50

\* THRESHOLDS.INDEXEDDB_MAX, 2 * 1024 * 1024 * 1024 bytes, in KiB: the byte count is
\* beyond 32-bit integers
INDEXEDDB_MAX_KIB == 2 * 1024 * 1024

\* THRESHOLDS.LARGE_FILE_WARNING, 1 GiB, in KiB
LARGE_FILE_WARNING_KIB == 1024 * 1024

\* THRESHOLDS.MOBILE_WARNING, 500 MiB, in KiB
MOBILE_WARNING_KIB == 500 * 1024

\* THRESHOLDS.MEMORY_RECOMMENDED_MAX, 500 MiB, in KiB
MEMORY_RECOMMENDED_MAX_KIB == 500 * 1024

\* a byte count in KiB, rounded up: every threshold is a whole number of KiB, so a
\* byte count exceeds a threshold exactly when its KiB count exceeds the threshold's
KiB(size) == (size + 1023) \div 1024

PRUNE_LIMIT == 1000

PRUNE_COUNT == 500

FileName == "f.bin"

MimeType == "application/octet-stream"

(***************************************************************************)
(* Bounds of the model.                                                    *)
(***************************************************************************)
\* chunks of the largest file of the end-to-end specifications
MaxChunks == 52

\* chunks of the largest file of the specifications that explore faults,
\* duplicates and handler attachment
SmallChunks == 3

\* chunks of the largest file of the sender-only specification
SendChunks == 13

\* undelivered messages the channel holds in the end-to-end specifications
MaxChannel == 2

\* database transactions that may be pending at once
MaxPendingTx == 2

\* peer connections created in one behaviour
MaxConns == 2

\* readings of the millisecond clock
MaxClock == 2

\* duplicate deliveries in one behaviour
MaxDups == 2

\* setMessageHandler calls in one behaviour
MaxAttach == 3

\* storage faults injected in one behaviour
MaxFaults == 1

\* events of connections and channels in one behaviour
MaxEvents == 2

NoValue == "null"

(***************************************************************************)
(* Helpers.                                                                *)
(***************************************************************************)
Min(a, b) == IF a < b THEN a ELSE b

RECURSIVE Digits(_)
\* number of decimal digits of n, as JSON.stringify prints it
Digits(n) == IF n < 10 THEN 1 ELSE 1 + Digits(n \div 10)

Range(s) == {s[k] : k \in DOMAIN s}

\* the chunk count rounded down
TotalChunksFloor(size) == size \div CHUNK_SIZE

\* Math.ceil(file.size / CHUNK_SIZE)
TotalChunks(size) == (size + CHUNK_SIZE - 1) \div CHUNK_SIZE

\* end - start of slice i of a file of the given size
SliceSize(size, i) == Min(i * CHUNK_SIZE + CHUNK_SIZE, size) - i * CHUNK_SIZE

(***************************************************************************)
(* Messages on the data channel.  A binary payload is identified by the    *)
(* slice of the sender's file it carries (bytes) and its length; it does   *)
(* not carry a chunk index.                                                *)
(***************************************************************************)
MetaMsg(size) ==
    [type |-> "meta", index |-> -1, size |-> size, totalChunks |-> TotalChunks(size), bytes |-> -1]

HeaderMsg(i, sz) ==
    [type |-> "chunk", index |-> i, size |-> sz, totalChunks |-> -1, bytes |-> -1]

BinaryMsg(i, sz) ==
    [type |-> "binary", index |-> -1, size |-> sz, totalChunks |-> -1, bytes |-> i]

CompleteMsg ==
    [type |-> "complete", index |-> -1, size |-> -1, totalChunks |-> -1, bytes |-> -1]

\* bytes the message adds to the channel's bufferedAmount
MsgBytes(m) ==
    CASE m.type = "binary" -> m.size
      [] m.type = "chunk" -> 33 + Digits(m.index) + Digits(m.size)
      [] m.type = "meta" ->
            62 + Len(FileName) + Len(MimeType) + Digits(m.size) + Digits(m.totalChunks)
      [] OTHER -> 19

RECURSIVE SumBytes(_)
\* the bytes of the messages of s, summed half by half
SumBytes(s) ==
    IF Len(s) = 0 THEN 0
    ELSE IF Len(s) = 1 THEN MsgBytes(s[1])
    ELSE LET h == Len(s) \div 2
         IN  SumBytes(SubSeq(s, 1, h)) + SumBytes(SubSeq(s, h + 1, Len(s)))

VARIABLES
    \* ---- sender tab
    fileSize,            \* file.size of the file being sent
    sndChannel,          \* readyState of the sender's data channel
    sndPc,               \* position of sendFile: idle, loop, done, failed
    sndI,                \* loop variable i of sendFile
    sndStatus,           \* status of the sender's TransferPage
    sndHashVerified,     \* hashVerified in the sender's context
    sndPage,             \* route of the sender tab
    sent,                \* every message handed to channel.send, in order
    \* ---- data channel and relay
    channel,             \* messages sent and not yet delivered
    unsent,              \* messages at the tail of channel still buffered locally
    chanCap,             \* capacity of the channel in this behaviour
    relay,               \* the relay's session for this transfer: live or deleted
    \* ---- receiving WebRTC provider
    connectionState,
    peerConnectionRef,   \* 0 is null, otherwise the id of the connection
    dataChannelRef,      \* 0 is null, otherwise the id of the connection it belongs to
    pcCount,             \* connections created so far
    pcState,             \* per connection: none, live, failed, closed
    dcState,             \* per connection, its data channel: none, connecting, open,
                         \* closing, gone (its close event has fired)
    stateChangeHandlerRef,
    messageHandlerRef,
    messageSeqRef,
    processedMessagesRef,
    messageQueueRef,
    arrived,             \* every message the channel delivered, in order
    handled,             \* every message passed to a handler, in order
    attachCount,         \* setMessageHandler(handler) calls so far
    replayed             \* has a setMessageHandler call replayed two or more queued messages

sndVars == <<fileSize, sndChannel, sndPc, sndI, sndStatus, sndHashVerified, sndPage, sent>>

chanVars == <<channel, unsent, chanCap, relay>>

rtcVars == <<connectionState, peerConnectionRef, dataChannelRef, pcCount, pcState, dcState,
             stateChangeHandlerRef, messageHandlerRef, messageSeqRef,
             processedMessagesRef, messageQueueRef, arrived, handled, attachCount,
             replayed>>

\* ---- receiver tab: TransferPage, storage strategy, browser storage
VARIABLES
    page,                \* refs and state of the receiver's TransferPage and its context
    strat,               \* the fields of the storage strategy instance held in the context
    store,               \* the browser's database, its transaction queue, the save stream, the clock
    accept,              \* the ConfirmPage: the browser it runs in and the position of handleAccept
    env                  \* what the environment has done so far: duplicates, faults

rxVars == <<page, strat, store, accept, env>>

vars == <<sndVars, chanVars, rtcVars, rxVars>>

(***************************************************************************)
(* Files and digests.  A chunk payload is [bytes, len]: bytes names the    *)
(* slice of the sender's file the payload was read from.  A File is the    *)
(* sequence of the payloads it was built from, which determines its bytes. *)
(* The digest is collision-free: equal digests mean equal bytes.           *)
(***************************************************************************)
ChunkData(i, len) == [bytes |-> i, len |-> len]

\* the payloads of the sender's file, slice by slice
SourceBlocks(size) == [i \in 1..TotalChunks(size) |-> ChunkData(i - 1, SliceSize(size, i - 1))]

\* new File([blob], fileName, {type: mimeType}): content is the payloads of the blob,
\* one after the other
NewFile(blocks, fileName, mimeType) ==
    [name |-> fileName, type |-> mimeType, content |-> blocks]

MakeFile(blocks) == NewFile(blocks, FileName, MimeType)

calculateSHA256(file) == <<"sha256", file.content>>

\* the digest the sender computed on the home page and published in fileMeta
SenderHash(size) == calculateSHA256(MakeFile(SourceBlocks(size)))

\* chunks.sort((a, b) => a.index - b.index): ascending index, stable on ties.
\* pos[k] is the place of chunks[k] in the result: one more than the number of
\* elements that sort before it
SortByIndex(chunks) ==
    LET n == Len(chunks)
        Before(j, k) == \/ chunks[j].index < chunks[k].index
                        \/ chunks[j].index = chunks[k].index /\ j < k
        pos == [k \in 1..n |-> Cardinality({j \in 1..n : Before(j, k)}) + 1]
    IN  IF n = 0 THEN <<>>
        ELSE [p \in 1..n |-> chunks[CHOOSE k \in 1..n : pos[k] = p]]

DataOf(chunks) == [k \in DOMAIN chunks |-> chunks[k].data]

\* a reassembly that keeps the chunks in the order of the array
reassembleChunksUnsorted(chunks, fileName, mimeType) ==
    NewFile(DataOf(chunks), fileName, mimeType)

reassembleChunks(chunks, fileName, mimeType) ==
    NewFile(DataOf(SortByIndex(chunks)), fileName, mimeType)

(***************************************************************************)
(* The receiver-side operators below are functions of R, the receiver      *)
(* state [page, strat, store, micro]: micro is the queue of promise        *)
(* continuations that run before the current event-loop task ends.         *)
(***************************************************************************)
Task(k, index, data) == [k |-> k, index |-> index, data |-> data]

Defer(R, t) == [R EXCEPT !.micro = Append(@, t)]

\* a session id that leaves out the clock reading
SessionIdNoClock(now, rnd) == <<0, rnd>>

\* `session_${Date.now()}_${Math.random().toString(36).slice(2, 11)}`
SessionId(now, rnd) == <<now, rnd>>

\* constructor and init of a strategy of the given type
NewStrategy(type, inst, sid) ==
    [type |-> type, inst |-> inst,
     \* MemoryStrategy
     chunks |-> <<>>,
     \* IndexedDBStrategy
     db |-> (type = "indexeddb"), buffer |-> <<>>, sessionId |-> sid, chunksWritten |-> 0,
     \* FileSystemStrategy
     writable |-> (type = "filesystem"), fileHandle |-> (type = "filesystem"),
     isClosing |-> FALSE, isClosed |-> FALSE, bytesWritten |-> 0, writeQueue |-> <<>>,
     \* positions of the async methods finalize and cleanup
     finalizePc |-> "idle", finalizeAwait |-> 0,
     cleanupPc |-> "idle", cleanupAwait |-> 0]

(***************************************************************************)
(* MemoryStrategy                                                          *)
(***************************************************************************)
MemWriteChunk(R, idx, data) ==
    Defer([R EXCEPT !.strat.chunks = Append(@, [index |-> idx, data |-> data])],
          Task("hmOk", idx, data))

MemFinalize(R) ==
    LET sorted == SortByIndex(R.strat.chunks)
    IN Defer([R EXCEPT !.strat.chunks = sorted],
             Task("htcFile", 0, MakeFile(DataOf(sorted))))

MemCleanup(R) == [R EXCEPT !.strat.chunks = <<>>]

(***************************************************************************)
(* IndexedDBStrategy.  The object store is a set of records                *)
(* [sessionId, index, data] keyed by (sessionId, index).  Transactions on  *)
(* the one object store run one at a time in the order they were created.  *)
(***************************************************************************)
IdbRecord(sid, idx, data) == [sessionId |-> sid, index |-> idx, data |-> data]

SameKey(a, b) == a.sessionId = b.sessionId /\ a.index = b.index

\* store.put(chunk) for each chunk of recs, in order: a record with the same key is
\* replaced, so of the records of recs with one key the last one stays
IdbPutAll(S, recs) ==
    LET kept == {k \in DOMAIN recs :
                    \A j \in DOMAIN recs : j > k => ~SameKey(recs[j], recs[k])}
    IN  {r \in S : \A k \in DOMAIN recs : ~SameKey(r, recs[k])}
            \cup {recs[k] : k \in kept}

\* index.getAll(sessionId): the records of the session, which differ in their index;
\* they are listed here by ascending index, and the callers sort the result
IdbGetAll(S, sid) ==
    LET T == {r \in S : r.sessionId = sid}
        n == Cardinality(T)
    IN  IF n = 0 THEN <<>>
        ELSE [p \in 1..n |->
                 CHOOSE r \in T : Cardinality({q \in T : q.index < r.index}) = p - 1]

\* this.db.transaction(...) with its requests and the promise that waits for it
NewTx(R, kind, puts, waiter) ==
    [R EXCEPT !.store.idbTx = Append(@, [id |-> R.store.txCount + 1, kind |-> kind,
                                          inst |-> R.strat.inst,
                                          sessionId |-> R.strat.sessionId,
                                          puts |-> puts, waiter |-> waiter,
                                          behindFlush |->
                                              \E k \in DOMAIN R.store.idbTx :
                                                  R.store.idbTx[k].kind = "flush"]),
              !.store.txCount = @ + 1]

\* _flushBuffer on a buffer that is not empty: one transaction puts a snapshot of
\* the buffer; the buffer itself is emptied when the transaction completes
flushBuffer(R, waiter) == NewTx(R, "flush", R.strat.buffer, waiter)

\* a writeChunk that flushes only once the buffer holds more than BUFFER_SIZE chunks
IdbWriteChunkLate(R, idx, data) ==
    LET R1 == [R EXCEPT !.strat.buffer =
                   Append(@, IdbRecord(R.strat.sessionId, idx, data))]
    IN IF Len(R1.strat.buffer) > BUFFER_SIZE
       THEN flushBuffer(R1, Task("hm", idx, data))
       ELSE Defer(R1, Task("hmOk", idx, data))

IdbWriteChunk(R, idx, data) ==
    IF ~R.strat.db THEN Defer(R, Task("hmFail", idx, data))
    ELSE LET R1 == [R EXCEPT !.strat.buffer =
                        Append(@, IdbRecord(R.strat.sessionId, idx, data))]
         IN IF Len(R1.strat.buffer) >= BUFFER_SIZE
            THEN flushBuffer(R1, Task("hm", idx, data))
            ELSE Defer(R1, Task("hmOk", idx, data))

\* _getAllChunks: a readonly transaction; this.db.transaction throws when db is null
getAllChunks(R) ==
    IF ~R.strat.db THEN Defer(R, Task("htcFinalizeFailed", 0, NoValue))
    ELSE NewTx(R, "getAll", <<>>, Task("getAll", 0, NoValue))

\* a finalize that reads the database back without flushing the buffer first
IdbFinalizeNoFlush(R) == getAllChunks(R)

IdbFinalize(R) ==
    IF ~R.strat.db THEN Defer(R, Task("htcFinalizeFailed", 0, NoValue))
    ELSE IF R.strat.buffer = <<>> THEN getAllChunks(R)
    ELSE flushBuffer(R, Task("finalize", 0, NoValue))

IdbCleanup(R) ==
    IF ~R.strat.db THEN R
    ELSE NewTx([R EXCEPT !.strat.buffer = <<>>], "cleanup", <<>>, Task("cleanup", 0, NoValue))

(***************************************************************************)
(* FileSystemStrategy.  writeQueue is the promise chain: one entry per     *)
(* writeChunk call, queued until the entry before it settles.              *)
(***************************************************************************)
Settled(st) == st \in {"ok", "rejected"}

\* callbacks that do not wait for the entry before them
FsAlwaysReady(q, k) == TRUE

\* the callback of entry k runs once the promise it was chained on has settled
FsChainReady(q, k) == k = 1 \/ Settled(q[k - 1].st)

FsWriteChunk(R, idx, data) ==
    IF ~R.strat.writable \/ R.strat.isClosed \/ R.strat.isClosing
    THEN Defer(R, Task("hmFail", idx, data))
    ELSE [R EXCEPT !.strat.writeQueue =
              Append(@, [index |-> idx, data |-> data, st |-> "queued"])]

\* the promise this.writeQueue as finalize and cleanup await it: entry k, or the
\* resolved promise of init when no write was queued
QueueSettled(R, k) == k = 0 \/ Settled(R.strat.writeQueue[k].st)

QueueRejected(R, k) == k > 0 /\ R.strat.writeQueue[k].st = "rejected"

FsFinalize(R) ==
    IF ~R.strat.writable \/ R.strat.isClosed
    THEN Defer(R, Task("htcFinalizeFailed", 0, NoValue))
    ELSE [R EXCEPT !.strat.finalizePc = "awaitQueue",
                   !.strat.finalizeAwait = Len(R.strat.writeQueue)]

FsCleanup(R) ==
    [R EXCEPT !.strat.cleanupPc = "awaitQueue",
              !.strat.cleanupAwait = Len(R.strat.writeQueue)]

(***************************************************************************)
(* Dispatch on the strategy held by the TransferPage.                      *)
(***************************************************************************)
WriteChunk(R, idx, data) ==
    CASE R.strat.type = "memory" -> MemWriteChunk(R, idx, data)
      [] R.strat.type = "indexeddb" -> IdbWriteChunk(R, idx, data)
      [] OTHER -> FsWriteChunk(R, idx, data)

Finalize(R) ==
    CASE R.strat.type = "memory" -> MemFinalize(R)
      [] R.strat.type = "indexeddb" -> IdbFinalize(R)
      [] OTHER -> FsFinalize(R)

Cleanup(R) ==
    CASE R.strat.type = "memory" -> MemCleanup(R)
      [] R.strat.type = "indexeddb" -> IdbCleanup(R)
      [] OTHER -> FsCleanup(R)

(***************************************************************************)
(* The receiver's TransferPage.                                            *)
(***************************************************************************)
\* pendingChunkIndexRef.current = null
NoIndex == -1

NoMeta == [type |-> "none", index |-> -1, size |-> -1, totalChunks |-> -1, bytes |-> -1]

NoFile == MakeFile(<<>>)

\* the state of a TransferPage that has not been mounted, in a context where
\* handleAccept stored a strategy (hasStrategy) and the relay delivered fileMeta
NewPage(size, hasStrategy) ==
    [route |-> "transfer", mounted |-> FALSE, status |-> "connecting",
     transferCompleteRef |-> FALSE, fileMetaRef |-> NoMeta, expectedChunksRef |-> 0,
     receivedChunksSetRef |-> {}, pendingChunkIndexRef |-> NoIndex, chunksRef |-> <<>>,
     receivedBytesRef |-> 0, storageStrategyRef |-> FALSE,
     htcPc |-> "idle", rehashed |-> FALSE, verifyFile |-> NoFile,
     hasReceivedFile |-> FALSE, receivedFile |-> NoFile, hashVerified |-> "null",
     emitted |-> <<>>,
     \* context: fileMeta as the relay delivered it, and the strategy of handleAccept
     fileMeta |-> [size |-> size, hasHash |-> TRUE, hash |-> SenderHash(size)],
     storageStrategy |-> hasStrategy]

\* the continuation of handleMessage after `await strategy.writeChunk(...)` resolved
AfterWriteOk(R, t) == [R EXCEPT !.page.receivedBytesRef = @ + t.data.len]

\* the catch block of handleMessage, then the statements after the try
AfterWriteFail(R, t) ==
    LET R1 == IF ~R.page.transferCompleteRef
              THEN [R EXCEPT !.page.chunksRef = Append(@, [index |-> t.index, data |-> t.data])]
              ELSE R
    IN [R1 EXCEPT !.page.receivedBytesRef = @ + t.data.len]

\* a handler that counts the bytes of a payload it has no index for
OnBinaryCounted(R, m) ==
    LET chunkIndex == R.page.pendingChunkIndexRef
        R1 == [R EXCEPT !.page.pendingChunkIndexRef = NoIndex]
        chunkData == ChunkData(m.bytes, m.size)
    IN IF chunkIndex = NoIndex THEN [R1 EXCEPT !.page.receivedBytesRef = @ + m.size]
       ELSE IF chunkIndex \in R.page.receivedChunksSetRef THEN R1
       ELSE LET R2 == [R1 EXCEPT !.page.receivedChunksSetRef = @ \cup {chunkIndex}]
            IN IF R2.page.storageStrategyRef /\ ~R2.page.transferCompleteRef
               THEN WriteChunk(R2, chunkIndex, chunkData)
               ELSE IF ~R2.page.transferCompleteRef
               THEN [R2 EXCEPT !.page.chunksRef =
                                   Append(@, [index |-> chunkIndex, data |-> chunkData]),
                               !.page.receivedBytesRef = @ + m.size]
               ELSE [R2 EXCEPT !.page.receivedBytesRef = @ + m.size]

\* handleMessage, data instanceof ArrayBuffer
OnBinary(R, m) ==
    LET chunkIndex == R.page.pendingChunkIndexRef
        R1 == [R EXCEPT !.page.pendingChunkIndexRef = NoIndex]
        chunkData == ChunkData(m.bytes, m.size)
    IN IF chunkIndex = NoIndex THEN R1
       ELSE IF chunkIndex \in R.page.receivedChunksSetRef THEN R1
       ELSE LET R2 == [R1 EXCEPT !.page.receivedChunksSetRef = @ \cup {chunkIndex}]
            IN IF R2.page.storageStrategyRef /\ ~R2.page.transferCompleteRef
               THEN WriteChunk(R2, chunkIndex, chunkData)
               ELSE IF ~R2.page.transferCompleteRef
               THEN [R2 EXCEPT !.page.chunksRef =
                                   Append(@, [index |-> chunkIndex, data |-> chunkData]),
                               !.page.receivedBytesRef = @ + m.size]
               ELSE [R2 EXCEPT !.page.receivedBytesRef = @ + m.size]

OnMeta(R, m) ==
    IF R.page.fileMetaRef.type # "none" THEN R
    ELSE [R EXCEPT !.page.fileMetaRef = m,
                   !.page.expectedChunksRef = m.totalChunks,
                   !.page.status = "transferring"]

OnChunkHeader(R, m) ==
    IF m.index \notin R.page.receivedChunksSetRef
    THEN [R EXCEPT !.page.pendingChunkIndexRef = m.index]
    ELSE [R EXCEPT !.page.pendingChunkIndexRef = NoIndex]

\* handleTransferComplete up to its first await.  meta is fileMetaRef.current ||
\* fileMeta, and the context's fileMeta is set on every path to this page.
handleTransferComplete(R) ==
    IF R.page.transferCompleteRef THEN R
    ELSE LET R1 == [R EXCEPT !.page.transferCompleteRef = TRUE,
                             !.page.status = "verifying",
                             !.page.htcPc = "finalizing"]
         IN IF R1.page.storageStrategyRef THEN Finalize(R1)
            ELSE Defer(R1, Task("htcReassemble", 0, NoValue))

handleMessage(R, m) ==
    IF R.page.transferCompleteRef THEN R
    ELSE CASE m.type = "binary" -> OnBinary(R, m)
           [] m.type = "meta" -> OnMeta(R, m)
           [] m.type = "chunk" -> OnChunkHeader(R, m)
           [] m.type = "complete" -> handleTransferComplete(R)
           [] OTHER -> R

\* cleanupChunks up to `await strategy.cleanup()`; what follows the await only logs
cleanupChunks(R) ==
    LET strategy == R.page.storageStrategyRef
        R1 == [R EXCEPT !.page.transferCompleteRef = TRUE,
                        !.page.chunksRef = <<>>,
                        !.page.receivedChunksSetRef = {},
                        !.page.receivedBytesRef = 0,
                        !.page.fileMetaRef = NoMeta,
                        !.page.pendingChunkIndexRef = NoIndex,
                        !.page.storageStrategyRef = FALSE]
    IN IF strategy THEN Cleanup(R1) ELSE R1

\* the handler TransferPage passes to setStateChangeHandler (role is receiver)
OnStateChange(R, state) ==
    IF state = "connected" THEN [R EXCEPT !.page.status = "transferring"]
    ELSE IF state \in {"failed", "disconnected"}
    THEN cleanupChunks([R EXCEPT !.page.status = "error"])
    ELSE R

\* handleTransferComplete once finalize returned a File (indexeddb, memory) or the
\* fallback list was reassembled: calculateSHA256(receivedFile) starts
StartHash(R, file) ==
    [R EXCEPT !.page.htcPc = "hashing", !.page.rehashed = TRUE, !.page.verifyFile = file]

\* navigate('/result') unmounts the page, whose effect cleanup detaches the handler
NavigateResult(R) == [R EXCEPT !.page.route = "result", !.page.mounted = FALSE]

\* handleTransferComplete once finalize returned {type: 'filesystem'}
FinishFilesystem(R) ==
    NavigateResult([R EXCEPT !.page.hasReceivedFile = FALSE,
                             !.page.receivedFile = NoFile,
                             !.page.hashVerified = "true",
                             !.page.emitted = Append(@, "true"),
                             !.page.status = "complete",
                             !.page.htcPc = "done"])

\* originalHash && receivedHash === originalHash, with originalHash fileMeta.hash
IsVerified(fileMeta, receivedHash) ==
    IF ~fileMeta.hasHash THEN "null"
    ELSE IF receivedHash = fileMeta.hash THEN "true" ELSE "false"

\* handleTransferComplete once calculateSHA256 resolved
FinishHash(R) ==
    LET receivedHash == calculateSHA256(R.page.verifyFile)
        isVerified == IsVerified(R.page.fileMeta, receivedHash)
    IN NavigateResult([R EXCEPT !.page.hasReceivedFile = TRUE,
                                !.page.receivedFile = R.page.verifyFile,
                                !.page.hashVerified = isVerified,
                                !.page.emitted = Append(@, isVerified),
                                !.page.status = "complete",
                                !.page.htcPc = "done"])

\* one promise continuation
Continue(R, t) ==
    CASE t.k = "hmOk" -> AfterWriteOk(R, t)
      [] t.k = "hmFail" -> AfterWriteFail(R, t)
      [] t.k = "htcFile" -> StartHash(R, t.data)
      [] t.k = "htcFsDone" -> FinishFilesystem(R)
      [] t.k \in {"htcFinalizeFailed", "htcReassemble"} ->
            StartHash(R, reassembleChunks(R.page.chunksRef, FileName, MimeType))
      [] OTHER -> R

(***************************************************************************)
(* The promise chain of FileSystemStrategy and the microtask loop.         *)
(***************************************************************************)
\* the first queued entry of writeQueue, 0 if none
FirstQueued(q) ==
    IF \E k \in DOMAIN q : q[k].st = "queued"
    THEN CHOOSE k \in DOMAIN q : q[k].st = "queued" /\ \A j \in 1..(k - 1) : q[j].st # "queued"
    ELSE 0

\* a stream whose close() always fails at once
CloseNeverAccepted(R) == FALSE

\* writable.close(): the stream starts closing, or the call fails at once because
\* the stream is already closing or closed
CloseAccepted(R) == R.store.fsStreamState = "open"

FsCanStep(R) ==
    LET q == R.strat.writeQueue
        k == FirstQueued(q)
    IN \/ k > 0 /\ FsChainReady(q, k)
       \/ R.strat.finalizePc = "awaitQueue" /\ QueueSettled(R, R.strat.finalizeAwait)
       \/ R.strat.cleanupPc = "awaitQueue" /\ QueueSettled(R, R.strat.cleanupAwait)

\* the callback writeChunk chained on writeQueue, for entry k
FsRunCallback(R, k) ==
    LET e == R.strat.writeQueue[k]
    IN IF k > 1 /\ R.strat.writeQueue[k - 1].st = "rejected"
       THEN \* then() on a rejected promise: the callback is skipped, the rejection passed on
            Defer([R EXCEPT !.strat.writeQueue[k].st = "rejected"],
                  Task("hmFail", e.index, e.data))
       ELSE IF ~R.strat.writable \/ R.strat.isClosing \/ R.strat.isClosed
       THEN \* the double-check returns without writing; the promise resolves
            Defer([R EXCEPT !.strat.writeQueue[k].st = "ok"], Task("hmOk", e.index, e.data))
       ELSE \* await this.writable.write(data)
            [R EXCEPT !.strat.writeQueue[k].st = "writing",
                      !.store.fsStream = Append(@, e.data)]

\* finalize after `await this.writeQueue`
FsFinalizeResume(R) ==
    IF QueueRejected(R, R.strat.finalizeAwait)
    THEN Defer([R EXCEPT !.strat.finalizePc = "done"], Task("htcFinalizeFailed", 0, NoValue))
    ELSE IF CloseAccepted(R)
    THEN [R EXCEPT !.strat.isClosing = TRUE, !.strat.finalizePc = "closing",
                   !.store.fsStreamState = "closing"]
    ELSE Defer([R EXCEPT !.strat.isClosing = TRUE, !.strat.isClosed = TRUE,
                         !.strat.writable = FALSE, !.strat.finalizePc = "done"],
               Task("htcFinalizeFailed", 0, NoValue))

\* cleanup after `await this.writeQueue`, whose rejection it ignores
FsCleanupResume(R) ==
    IF R.strat.writable /\ ~R.strat.isClosed
    THEN IF CloseAccepted(R)
         THEN [R EXCEPT !.strat.isClosing = TRUE, !.strat.cleanupPc = "closing",
                        !.store.fsStreamState = "closing"]
         ELSE [R EXCEPT !.strat.isClosing = TRUE, !.strat.isClosed = TRUE,
                        !.strat.writable = FALSE, !.strat.fileHandle = FALSE,
                        !.strat.bytesWritten = 0, !.strat.cleanupPc = "done"]
    ELSE [R EXCEPT !.strat.fileHandle = FALSE, !.strat.bytesWritten = 0,
                   !.strat.cleanupPc = "done"]

\* one reaction of the promise chain.  The reactions of a promise run in the order
\* they were registered: an await of finalize or cleanup on entry k was registered
\* before the callback of any entry chained on k later, and no callback of an
\* entry up to k is left once k has settled.
FsStep(R) ==
    LET q == R.strat.writeQueue
        k == FirstQueued(q)
    IN IF R.strat.finalizePc = "awaitQueue" /\ QueueSettled(R, R.strat.finalizeAwait)
       THEN FsFinalizeResume(R)
       ELSE IF R.strat.cleanupPc = "awaitQueue" /\ QueueSettled(R, R.strat.cleanupAwait)
       THEN FsCleanupResume(R)
       ELSE FsRunCallback(R, k)

RECURSIVE RunQueued(_, _)
RECURSIVE RunQueuedNext(_, _)
\* run the n oldest continuations of the microtask queue, oldest first; what they
\* queue goes to the end of the queue.  The first half has run (its state has
\* been computed) before the second half starts.
RunQueued(R, n) ==
    IF n = 0 THEN R
    ELSE IF n = 1 THEN Continue([R EXCEPT !.micro = Tail(@)], Head(R.micro))
    ELSE RunQueuedNext(RunQueued(R, n \div 2), n - n \div 2)

RunQueuedNext(R, n) == IF DOMAIN R = {} THEN R ELSE RunQueued(R, n)

RECURSIVE RunMicro(_)
\* run promise continuations until none is left: the end of the event-loop task
RunMicro(R) ==
    IF R.micro # <<>> THEN RunMicro(RunQueued(R, Len(R.micro)))
    ELSE IF FsCanStep(R) THEN RunMicro(FsStep(R))
    ELSE R

(***************************************************************************)
(* Completions delivered by the browser: a database transaction, a stream  *)
(* write, a stream close.                                                  *)
(***************************************************************************)
\* is the strategy instance that created the transaction still the one in use
Current(R, tx) == tx.inst = R.strat.inst

\* a cleanup that empties the object store
DeleteEverything(S, sid) == {}

\* index.getAllKeys(sessionId) and store.delete(key) for each key of the result
DeleteSession(S, sid) == {r \in S : r.sessionId # sid}

\* the head transaction commits and its oncomplete / onsuccess handler runs
TxComplete(R) ==
    LET tx == Head(R.store.idbTx)
        R0 == [R EXCEPT !.store.idbTx = Tail(@)]
    IN CASE tx.kind = "flush" ->
              LET R1 == [R0 EXCEPT !.store.idbStore = IdbPutAll(@, tx.puts)]
                  \* transaction.oncomplete of _flushBuffer
                  R2 == IF Current(R, tx)
                        THEN [R1 EXCEPT !.strat.chunksWritten = @ + Len(R1.strat.buffer),
                                        !.strat.buffer = <<>>]
                        ELSE R1
              IN IF ~Current(R, tx) THEN R2
                 ELSE IF tx.waiter.k = "hm"
                 THEN Defer(R2, Task("hmOk", tx.waiter.index, tx.waiter.data))
                 ELSE getAllChunks(R2)
         [] tx.kind = "getAll" ->
              IF ~Current(R, tx) THEN R0
              ELSE LET chunks == SortByIndex(IdbGetAll(R0.store.idbStore, tx.sessionId))
                   IN Defer(R0, Task("htcFile", 0, MakeFile(DataOf(chunks))))
         [] OTHER ->
              \* cleanup: getAllKeys(sessionId), a delete per key, then oncomplete
              LET R1 == [R0 EXCEPT !.store.idbStore = DeleteSession(@, tx.sessionId),
                                   !.store.cleanedSessions = @ \cup {tx.sessionId},
                                   !.store.raced = (@ \/ tx.behindFlush)]
              IN IF Current(R, tx) THEN [R1 EXCEPT !.strat.db = FALSE] ELSE R1

\* the head transaction aborts and its onerror handler runs
TxError(R) ==
    LET tx == Head(R.store.idbTx)
        R0 == [R EXCEPT !.store.idbTx = Tail(@)]
    IN IF ~Current(R, tx) THEN R0
       ELSE CASE tx.waiter.k = "hm" -> Defer(R0, Task("hmFail", tx.waiter.index, tx.waiter.data))
              [] tx.waiter.k \in {"finalize", "getAll"} ->
                    Defer(R0, Task("htcFinalizeFailed", 0, NoValue))
              [] OTHER -> R0

\* entry k of writeQueue is the write in progress
Writing(R) == {k \in DOMAIN R.strat.writeQueue : R.strat.writeQueue[k].st = "writing"}

\* writable.write(data) of entry k resolved
FsWriteResolved(R, k) ==
    LET e == R.strat.writeQueue[k]
    IN Defer([R EXCEPT !.strat.writeQueue[k].st = "ok",
                       !.strat.bytesWritten = @ + e.data.len,
                       !.store.fsDisk = Append(@, e.data)],
             Task("hmOk", e.index, e.data))

\* writable.write(data) of entry k rejected; closedMessage: the error's message
\* mentions 'closing' or 'closed'
FsWriteRejected(R, k, closedMessage) ==
    LET e == R.strat.writeQueue[k]
    IN Defer([R EXCEPT !.strat.writeQueue[k].st = "rejected",
                       !.strat.isClosed = (@ \/ closedMessage),
                       !.store.fsStreamState = "errored"],
             Task("hmFail", e.index, e.data))

\* writable.close() resolved, in finalize or in cleanup
FsCloseResolved(R) ==
    LET R1 == [R EXCEPT !.store.fsStreamState = "closed",
                        !.strat.isClosed = TRUE, !.strat.writable = FALSE]
    IN IF R.strat.finalizePc = "closing"
       THEN Defer([R1 EXCEPT !.strat.finalizePc = "done"], Task("htcFsDone", 0, NoValue))
       ELSE [R1 EXCEPT !.strat.fileHandle = FALSE, !.strat.bytesWritten = 0,
                       !.strat.cleanupPc = "done"]

\* writable.close() rejected, in finalize (which rethrows) or in cleanup (which ignores it)
FsCloseRejected(R) ==
    LET R1 == [R EXCEPT !.store.fsStreamState = "closed",
                        !.strat.isClosed = TRUE, !.strat.writable = FALSE]
    IN IF R.strat.finalizePc = "closing"
       THEN Defer([R1 EXCEPT !.strat.finalizePc = "done"],
                  Task("htcFinalizeFailed", 0, NoValue))
       ELSE [R1 EXCEPT !.strat.fileHandle = FALSE, !.strat.bytesWritten = 0,
                       !.strat.cleanupPc = "done"]

(***************************************************************************)
(* The receiving WebRTC provider.                                          *)
(***************************************************************************)
\* the receiver state the operators above work on
RxState == [page |-> page, strat |-> strat, store |-> store, micro |-> <<>>]

SetRx(R) == page' = R.page /\ strat' = R.strat /\ store' = R.store

\* this task navigated away from the TransferPage: the cleanup of its effect
\* calls setMessageHandler(null)
Unmounted(R) == page.mounted /\ ~R.page.mounted

\* the task ran receiver code and ended in state R
RxTask(R) ==
    /\ SetRx(R)
    /\ messageHandlerRef' = IF Unmounted(R) THEN NoValue ELSE messageHandlerRef

\* processedMessagesRef once it grew past the limit: the oldest entries are deleted
Prune(S) ==
    IF Cardinality(S) > PRUNE_LIMIT
    THEN {s \in S : Cardinality({t \in S : t < s}) >= PRUNE_COUNT}
    ELSE S

\* stateChangeHandlerRef.current?.(state)
CallStateHandler(R, state) ==
    IF stateChangeHandlerRef = "transfer" THEN RunMicro(OnStateChange(R, state)) ELSE R

\* updateState(state), as the whole of an event handler
updateState(state) ==
    /\ connectionState' = state
    /\ RxTask(CallStateHandler(RxState, state))

RECURSIVE Replay(_, _)
RECURSIVE ReplayNext(_, _)
\* queuedMessages.forEach(handler): the handler is called on each message of q in
\* order.  The calls on the first half have returned (their state has been
\* computed) before the calls on the second half start.
Replay(R, q) ==
    IF Len(q) = 0 THEN R
    ELSE IF Len(q) = 1 THEN handleMessage(R, q[1])
    ELSE LET h == Len(q) \div 2
         IN  ReplayNext(Replay(R, SubSeq(q, 1, h)), SubSeq(q, h + 1, Len(q)))

ReplayNext(R, q) == IF DOMAIN R = {} THEN R ELSE Replay(R, q)

\* setMessageHandler(handleMessage) on the receiver state R
setMessageHandler(R) ==
    /\ messageHandlerRef' = "handleMessage"
    /\ messageQueueRef' = <<>>
    /\ handled' = handled \o messageQueueRef
    /\ attachCount' = attachCount + 1
    /\ replayed' = (replayed \/ Len(messageQueueRef) >= 2)
    /\ SetRx(RunMicro(Replay(R, messageQueueRef)))

\* a queue that hands out the newest message first
PushFront(q, m) == <<m>> \o q

\* messageQueueRef.current.push(event.data)
Push(q, m) == Append(q, m)

\* channel.onmessage
onmessage(m) ==
    LET seq == messageSeqRef
    IN /\ messageSeqRef' = seq + 1
       /\ arrived' = Append(arrived, m)
       /\ IF seq \in processedMessagesRef
          THEN UNCHANGED <<processedMessagesRef, messageQueueRef, handled, messageHandlerRef,
                           page, strat, store>>
          ELSE /\ processedMessagesRef' = Prune(processedMessagesRef \cup {seq})
               /\ IF messageHandlerRef = NoValue
                  THEN /\ messageQueueRef' = Push(messageQueueRef, m)
                       /\ UNCHANGED <<handled, messageHandlerRef, page, strat, store>>
                  ELSE /\ handled' = Append(handled, m)
                       /\ RxTask(RunMicro(handleMessage(RxState, m)))
                       /\ UNCHANGED messageQueueRef

\* the effects of a TransferPage that mounts, in the order they are declared
MountEffects(R) ==
    [R EXCEPT !.page.mounted = TRUE,
              !.page.storageStrategyRef = R.page.storageStrategy,
              !.page.chunksRef = <<>>,
              !.page.receivedBytesRef = 0,
              !.page.expectedChunksRef = 0,
              !.page.fileMetaRef = NoMeta,
              !.page.transferCompleteRef = FALSE,
              !.page.receivedChunksSetRef = {},
              !.page.pendingChunkIndexRef = NoIndex]

\* close() of the provider, without its updateState
CloseRefs ==
    /\ dcState' = IF dataChannelRef # 0 /\ dcState[dataChannelRef] \in {"connecting", "open"}
                  THEN [dcState EXCEPT ![dataChannelRef] = "closing"]
                  ELSE dcState
    /\ pcState' = IF peerConnectionRef # 0
                  THEN [pcState EXCEPT ![peerConnectionRef] = "closed"]
                  ELSE pcState
    /\ peerConnectionRef' = 0
    /\ dataChannelRef' = 0

connVars == <<peerConnectionRef, dataChannelRef, pcCount, pcState, dcState>>

msgVars == <<messageSeqRef, processedMessagesRef, messageQueueRef, arrived, handled,
            attachCount, replayed>>

(***************************************************************************)
(* The sender: the send effect of its TransferPage and sendFile.           *)
(***************************************************************************)
\* a channel that reports only the message sent last
BufferedAmountLast == IF unsent = 0 THEN 0 ELSE MsgBytes(channel[Len(channel)])

\* channel.bufferedAmount
BufferedAmount == SumBytes(SubSeq(channel, Len(channel) - unsent + 1, Len(channel)))

\* channel.send(m) for each m of out
ChannelSend(out) ==
    /\ sent' = sent \o out
    /\ channel' = channel \o out
    /\ unsent' = unsent + Len(out)

\* the send effect calls sendFile, which runs up to its first await
SendFileStart ==
    /\ sndPage = "transfer" /\ sndStatus = "connecting" /\ sndPc = "idle"
    /\ Len(channel) < chanCap
    /\ IF sndChannel # "open"
       THEN \* throw new Error('Data channel not open'), caught by the effect
            /\ sndPc' = "failed"
            /\ sndStatus' = "error"
            /\ UNCHANGED <<sndI, sent, channel, unsent>>
       ELSE IF TotalChunks(fileSize) = 0
       THEN /\ ChannelSend(<<MetaMsg(fileSize), CompleteMsg>>)
            /\ sndPc' = "done"
            /\ sndStatus' = "complete"
            /\ UNCHANGED sndI
       ELSE /\ ChannelSend(<<MetaMsg(fileSize)>>)
            /\ sndPc' = "loop"
            /\ sndStatus' = "transferring"
            /\ sndI' = 0
    /\ UNCHANGED <<fileSize, sndChannel, sndHashVerified, sndPage, chanCap, relay,
                   rtcVars, rxVars>>

\* one iteration of the loop of sendFile from the point the buffer has room; after
\* the last iteration the completion signal goes out in the same task
SendChunk ==
    /\ sndPc = "loop"
    /\ BufferedAmount <= CHUNK_SIZE * BACKPRESSURE_CHUNKS
    /\ Len(channel) < chanCap
    /\ IF sndChannel # "open"
       THEN \* channel.send throws InvalidStateError
            /\ sndPc' = "failed"
            /\ sndStatus' = "error"
            /\ UNCHANGED <<sndI, sent, channel, unsent>>
       ELSE LET sz == SliceSize(fileSize, sndI)
                pair == <<HeaderMsg(sndI, sz), BinaryMsg(sndI, sz)>>
                last == sndI + 1 = TotalChunks(fileSize)
            IN /\ ChannelSend(IF last THEN Append(pair, CompleteMsg) ELSE pair)
               /\ sndI' = sndI + 1
               /\ sndPc' = IF last THEN "done" ELSE "loop"
               /\ sndStatus' = IF last THEN "complete" ELSE sndStatus
    /\ UNCHANGED <<fileSize, sndChannel, sndHashVerified, sndPage, chanCap, relay,
                   rtcVars, rxVars>>

\* the sender's data channel closes under it
SenderChannelClose ==
    /\ sndChannel = "open"
    /\ sndChannel' = "closed"
    /\ UNCHANGED <<fileSize, sndPc, sndI, sndStatus, sndHashVerified, sndPage, sent,
                   chanVars, rtcVars, rxVars>>

\* the sender's transport takes the oldest buffered message off the buffer
Drain ==
    /\ unsent > 0
    /\ unsent' = unsent - 1
    /\ UNCHANGED <<sndVars, channel, chanCap, relay, rtcVars, rxVars>>

\* the sender's handler of the relayed transfer-complete event
SenderHandleComplete ==
    /\ relay = "live"
    /\ page.emitted # <<>>
    /\ relay' = "deleted"
    /\ IF sndPage = "transfer"
       THEN sndHashVerified' = Head(page.emitted) /\ sndPage' = "result"
       ELSE UNCHANGED <<sndHashVerified, sndPage>>
    /\ UNCHANGED <<fileSize, sndChannel, sndPc, sndI, sndStatus, sent,
                   channel, unsent, chanCap, rtcVars, rxVars>>

(***************************************************************************)
(* The receiver: messages, page mounts, storage completions.               *)
(***************************************************************************)
\* the channel delivers its oldest message to channel.onmessage
Deliver ==
    /\ Len(channel) > unsent
    /\ dcState[1] = "open"
    /\ Len(store.idbTx) < MaxPendingTx
    /\ channel' = Tail(channel)
    /\ onmessage(Head(channel))
    /\ UNCHANGED <<sndVars, unsent, chanCap, relay, connVars, connectionState,
                   stateChangeHandlerRef, attachCount, replayed, env, accept>>

\* the TransferPage mounts and its effects run
MountTransferPage ==
    /\ page.route = "transfer" /\ ~page.mounted
    /\ attachCount < MaxAttach
    /\ stateChangeHandlerRef' = "transfer"
    /\ setMessageHandler(MountEffects(RxState))
    /\ UNCHANGED <<sndVars, chanVars, connVars, connectionState, messageSeqRef,
                   processedMessagesRef, arrived, env, accept>>

\* the TransferPage unmounts: the cleanup of its handler effect
UnmountTransferPage ==
    /\ page.mounted
    /\ page' = [page EXCEPT !.mounted = FALSE]
    /\ messageHandlerRef' = NoValue
    /\ UNCHANGED <<sndVars, chanVars, connVars, connectionState, stateChangeHandlerRef,
                   msgVars, strat, store, env, accept>>

\* a task that only runs receiver code: everything else is left alone
RxOnly(R) ==
    /\ RxTask(R)
    /\ UNCHANGED <<sndVars, chanVars, connVars, connectionState, stateChangeHandlerRef,
                   msgVars>>

TxCompleteAct ==
    /\ store.idbTx # <<>>
    /\ RxOnly(RunMicro(TxComplete(RxState)))
    /\ UNCHANGED <<env, accept>>

FsWriteDone ==
    /\ \E k \in Writing(RxState) : RxOnly(RunMicro(FsWriteResolved(RxState, k)))
    /\ UNCHANGED <<env, accept>>

FsCloseDone ==
    /\ store.fsStreamState = "closing"
    /\ RxOnly(RunMicro(FsCloseResolved(RxState)))
    /\ UNCHANGED <<env, accept>>

\* calculateSHA256(receivedFile) resolves
HashDone ==
    /\ page.htcPc = "hashing"
    /\ RxOnly(FinishHash(RxState))
    /\ UNCHANGED <<env, accept>>

(***************************************************************************)
(* Initial states.                                                         *)
(***************************************************************************)
StrategyTypes == {"filesystem", "indexeddb", "memory"}

\* the browser's storage before the transfer, with the save stream that
\* FileSystemStrategy.init opened
NewStore(type) ==
    [idbTx |-> <<>>, idbStore |-> {}, txCount |-> 0, cleanedSessions |-> {}, raced |-> FALSE,
     fsStream |-> <<>>, fsDisk |-> <<>>,
     fsStreamState |-> IF type = "filesystem" THEN "open" ELSE "none",
     now |-> 1, sessions |-> <<[type |-> type, sessionId |-> SessionId(1, 0)]>>]

NewEnv == [dups |-> 0, faults |-> 0, events |-> 0]

fallbackOrder == <<"filesystem", "indexeddb", "memory">>

\* fallbackOrder.indexOf(type), counted from 1
IndexOf(type) == CHOOSE k \in DOMAIN fallbackOrder : fallbackOrder[k] = type

\* the ConfirmPage after handleAccept initialised a strategy of the given type at
\* its first attempt, in a browser where detectBestStrategy returns that type
Accepted(type) ==
    [pc |-> "done", mobile |-> FALSE, hasFS |-> (type = "filesystem"),
     hasIDB |-> (type # "memory"), sizeKiB |-> KiB(fileSize), idx |-> IndexOf(type),
     tried |-> <<[type |-> type, outcome |-> "ok"]>>,
     strategyType |-> type, emitted |-> <<"accept-transfer">>]

\* the sender about to run its send effect
InitSender(sizes, channelStates) ==
    /\ fileSize \in sizes
    /\ sndChannel \in channelStates
    /\ sndPc = "idle" /\ sndI = 0 /\ sndStatus = "connecting"
    /\ sndHashVerified = "null" /\ sndPage = "transfer" /\ sent = <<>>

InitChannel(cap) ==
    /\ channel = <<>> /\ unsent = 0 /\ chanCap = cap /\ relay = "live"

\* the provider once signaling is done and the data channel is open
InitProviderOpen ==
    /\ connectionState = "connected"
    /\ peerConnectionRef = 1 /\ dataChannelRef = 1 /\ pcCount = 1
    /\ pcState = [c \in 1..MaxConns |-> IF c = 1 THEN "live" ELSE "none"]
    /\ dcState = [c \in 1..MaxConns |-> IF c = 1 THEN "open" ELSE "none"]
    /\ stateChangeHandlerRef = NoValue /\ messageHandlerRef = NoValue
    /\ messageSeqRef = 0 /\ processedMessagesRef = {} /\ messageQueueRef = <<>>
    /\ arrived = <<>> /\ handled = <<>> /\ attachCount = 0 /\ replayed = FALSE

\* the receiver after handleAccept initialised a strategy of one of the types and
\* navigated to the TransferPage, which has not mounted yet
InitReceiver(types) ==
    /\ page = NewPage(fileSize, TRUE)
    /\ \E t \in types : /\ strat = NewStrategy(t, 1, SessionId(1, 0))
                       /\ store = NewStore(t)
                       /\ accept = Accepted(t)
    /\ env = NewEnv

\* file sizes of the end-to-end specification: empty, one byte, one full chunk,
\* a partial last chunk, and enough chunks to fill the database buffer and go on
E2ESizes == {0, 1, CHUNK_SIZE, 2 * CHUNK_SIZE + 1, MaxChunks * CHUNK_SIZE}

Init ==
    /\ InitSender(E2ESizes, {"open"})
    /\ InitChannel(MaxChannel)
    /\ InitProviderOpen
    /\ InitReceiver(StrategyTypes)

\* a transfer without faults, from the sender's send effect to both result pages
Next ==
    \/ SendFileStart
    \/ SendChunk
    \/ Drain
    \/ Deliver
    \/ MountTransferPage
    \/ TxCompleteAct
    \/ FsWriteDone
    \/ FsCloseDone
    \/ HashDone
    \/ SenderHandleComplete

Spec == Init /\ [][Next]_vars

(***************************************************************************)
(* Properties of the fault-free transfer.                                  *)
(***************************************************************************)
\* the receiver processed 'complete' and handleTransferComplete ran to its end
TransferDone == page.htcPc = "done"

\* C1: with the indexeddb or memory backend, once the receiver has processed
\* 'complete' the File it finalized holds chunks 0..n-1 of the sent file, each once
\* and in ascending order, and the verdict is verified
C1_DeliveredIntact ==
    (strat.type \in {"indexeddb", "memory"} /\ TransferDone)
        => /\ page.hasReceivedFile
           /\ page.receivedFile.content = SourceBlocks(fileSize)
           /\ page.hashVerified = "true"

\* C2: with the filesystem backend, once the receiver has processed 'complete' it
\* has finalized the backend without hashing the file again, its verdict is
\* verified, it emitted transfer-complete {verified: true} once and its status is
\* 'complete'; a sender that received the verdict is on the result page with
\* hashVerified true
C2_FilesystemPath ==
    strat.type = "filesystem" =>
        /\ TransferDone =>
              /\ strat.finalizePc = "done" /\ store.fsStreamState = "closed"
              /\ ~page.rehashed
              /\ page.hashVerified = "true"
              /\ page.emitted = <<"true">>
              /\ page.status = "complete"
        /\ ~TransferDone => page.emitted = <<>>
        /\ relay = "deleted" => sndPage = "result" /\ sndHashVerified = "true"

C2_Witness ==
    /\ strat.type = "filesystem" /\ TransferDone
    /\ fileSize > CHUNK_SIZE
    /\ store.fsDisk = SourceBlocks(fileSize)
    /\ relay = "deleted" /\ sndPage = "result"

(***************************************************************************)
(* The sender alone: sendFile against a channel that buffers what it is    *)
(* given, drains at its own pace and may close under the sender.           *)
(***************************************************************************)
\* file sizes around the chunk boundaries, up to enough chunks to fill the
\* channel's buffer past the backpressure threshold
SendSizes ==
    {0, 1, CHUNK_SIZE - 1, CHUNK_SIZE, CHUNK_SIZE + 1, 2 * CHUNK_SIZE, 3 * CHUNK_SIZE + 5,
     SendChunks * CHUNK_SIZE - 7, SendChunks * CHUNK_SIZE}

\* no limit on the undelivered messages of the sender-only specification
SendCap == 2 * SendChunks + 4

InitSend ==
    /\ InitSender(SendSizes, {"connecting", "open", "closed"})
    /\ InitChannel(SendCap)
    /\ InitProviderOpen
    /\ InitReceiver({"memory"})

NextSend ==
    \/ SendFileStart
    \/ SendChunk
    \/ Drain
    \/ SenderChannelClose

SpecSend == InitSend /\ [][NextSend]_vars

\* n = ceil(size / 64 KiB), found by search
C5_Count(size) ==
    CHOOSE n \in 0..(SendChunks + 1) :
        n * CHUNK_SIZE >= size /\ (n = 0 \/ (n - 1) * CHUNK_SIZE < size)

\* what the claim says the channel carries for a file of the given size
C5_Expected(size) ==
    LET n == C5_Count(size)
        body == [k \in 1..(2 * n) |->
                    LET i == (k - 1) \div 2
                        sz == Min(CHUNK_SIZE, size - i * CHUNK_SIZE)
                    IN IF k % 2 = 1 THEN HeaderMsg(i, sz) ELSE BinaryMsg(i, sz)]
    IN <<[type |-> "meta", index |-> -1, size |-> size, totalChunks |-> n, bytes |-> -1]>>
       \o body \o <<CompleteMsg>>

IsPrefix(s, t) == Len(s) <= Len(t) /\ s = SubSeq(t, 1, Len(s))

\* C5: what sendFile has handed to the channel is at every moment a prefix of
\* meta (totalChunks = n), header 0, payload 0, ..., header n-1, payload n-1,
\* complete, ending after meta or after a payload; it is the whole sequence once
\* sendFile has returned; and a sendFile called on a channel that is not open
\* sends nothing and fails
C5_Framing ==
    /\ [](/\ IsPrefix(sent, C5_Expected(fileSize))
          /\ sndPc = "loop" => Len(sent) = 1 + 2 * sndI
          /\ sndPc = "done" => sent = C5_Expected(fileSize) /\ sndStatus = "complete"
          /\ sndPc = "idle" => sent = <<>>)
    /\ [][(sndPc = "idle" /\ sndPc' # "idle" /\ sndChannel # "open")
             => (sent' = <<>> /\ sndPc' = "failed" /\ sndStatus' = "error")]_vars

\* a file of the largest size sent in full, the buffer having been past the
\* backpressure threshold on the way
C5_Witness ==
    /\ sndPc = "done"
    /\ fileSize = SendChunks * CHUNK_SIZE - 7
    /\ Len(sent) = 2 * SendChunks + 2
    /\ sent[Len(sent)] = CompleteMsg
    /\ sent[Len(sent) - 1] = BinaryMsg(SendChunks - 1, CHUNK_SIZE - 7)

(***************************************************************************)
(* Handler attachment: the TransferPage mounts and unmounts while messages *)
(* arrive.                                                                 *)
(***************************************************************************)
SmallSizes == {0, 1, CHUNK_SIZE + 1, SmallChunks * CHUNK_SIZE}

InitQueue ==
    /\ InitSender(SmallSizes, {"open"})
    /\ InitChannel(MaxChannel)
    /\ InitProviderOpen
    /\ InitReceiver({"memory"})

NextQueue ==
    \/ SendFileStart
    \/ SendChunk
    \/ Drain
    \/ Deliver
    \/ MountTransferPage
    \/ UnmountTransferPage
    \/ HashDone
    \/ SenderHandleComplete

SpecQueue == InitQueue /\ [][NextQueue]_vars

\* C4: the messages passed to a handler, followed by the messages still queued,
\* are the messages that arrived, in arrival order and each once; nothing is left
\* in the queue while a handler is attached
C4_QueueUntilHandler ==
    /\ handled \o messageQueueRef = arrived
    /\ messageHandlerRef # NoValue => messageQueueRef = <<>>

\* a handler was attached a second time and replayed what had queued up while none
\* was attached, and messages were handled directly as well
C4_Witness ==
    /\ attachCount >= 2
    /\ replayed
    /\ messageSeqRef >= 5
    /\ messageHandlerRef # NoValue
    /\ handled = arrived

(***************************************************************************)
(* A channel that may deliver again a message it already delivered.        *)
(***************************************************************************)
\* the channel delivers once more the k-th message it delivered
DeliverDup ==
    /\ env.dups < MaxDups
    /\ dcState[1] = "open"
    /\ \E k \in 1..Len(arrived) : onmessage(arrived[k])
    /\ env' = [env EXCEPT !.dups = @ + 1]
    /\ UNCHANGED accept
    /\ UNCHANGED <<sndVars, chanVars, connVars, connectionState,
                   stateChangeHandlerRef, attachCount, replayed>>

InitDup ==
    /\ InitSender(SmallSizes, {"open"})
    /\ InitChannel(MaxChannel)
    /\ InitProviderOpen
    /\ InitReceiver(StrategyTypes)

NextDup ==
    \/ SendFileStart
    \/ SendChunk
    \/ Drain
    \/ Deliver
    \/ DeliverDup
    \/ MountTransferPage
    \/ TxCompleteAct
    \/ FsWriteDone
    \/ FsCloseDone
    \/ HashDone
    \/ SenderHandleComplete

SpecDup == InitDup /\ [][NextDup]_vars

Pair(e) == [index |-> e.index, data |-> e.data]

\* every (index, bytes) pair the receiver applied to storage: the backend's
\* chunks, buffered or written or in a transaction, and the fallback list
AppliedSeq ==
    page.chunksRef
    \o (CASE strat.type = "memory" -> strat.chunks
          [] strat.type = "indexeddb" -> strat.buffer
          [] OTHER -> strat.writeQueue)

StoredPairs ==
    {Pair(AppliedSeq[k]) : k \in DOMAIN AppliedSeq}
    \cup {Pair(r) : r \in {x \in store.idbStore : x.sessionId = strat.sessionId}}

\* the pairs of the transfer without duplicates
ExpectedPairs(size) ==
    {[index |-> i - 1, data |-> SourceBlocks(size)[i]] : i \in 1..TotalChunks(size)}

\* C3: whatever is delivered more than once, no chunk index is applied to storage
\* twice, every pair applied is a pair of the transfer without duplicates, and
\* when the transfer is done all of those pairs have been applied
C3_DuplicatesDropped ==
    /\ \A j, k \in DOMAIN AppliedSeq : AppliedSeq[j].index = AppliedSeq[k].index => j = k
    /\ StoredPairs \subseteq ExpectedPairs(fileSize)
    /\ TransferDone => StoredPairs = ExpectedPairs(fileSize)

(***************************************************************************)
(* Storage faults: a stream write or close that rejects, a database        *)
(* transaction that aborts.                                                *)
(***************************************************************************)
Fault ==
    /\ env.faults < MaxFaults
    /\ env' = [env EXCEPT !.faults = @ + 1]
    /\ UNCHANGED accept

FsWriteFail ==
    /\ Fault
    /\ \E k \in Writing(RxState), closedMessage \in BOOLEAN :
          RxOnly(RunMicro(FsWriteRejected(RxState, k, closedMessage)))

FsCloseFail ==
    /\ Fault
    /\ store.fsStreamState = "closing"
    /\ RxOnly(RunMicro(FsCloseRejected(RxState)))

TxErrorAct ==
    /\ Fault
    /\ store.idbTx # <<>>
    /\ RxOnly(RunMicro(TxError(RxState)))

InitFault ==
    /\ InitSender(SmallSizes, {"open"})
    /\ InitChannel(MaxChannel)
    /\ InitProviderOpen
    /\ InitReceiver(StrategyTypes)

NextFault ==
    \/ SendFileStart
    \/ SendChunk
    \/ Drain
    \/ Deliver
    \/ MountTransferPage
    \/ TxCompleteAct
    \/ TxErrorAct
    \/ FsWriteDone
    \/ FsWriteFail
    \/ FsCloseDone
    \/ FsCloseFail
    \/ HashDone
    \/ SenderHandleComplete

SpecFault == InitFault /\ [][NextFault]_vars

\* C7: after a writeChunk failed (the fallback list is what its catch block fills),
\* the file that handleTransferComplete hands to verification holds every chunk
\* received, that is chunks 0..n-1, each once
C7_WriteFailureKeepsFile ==
    (page.chunksRef # <<>> /\ page.htcPc \in {"hashing", "done"} /\ page.rehashed)
        => page.verifyFile.content = SourceBlocks(fileSize)

RECURSIVE IsSubseq(_, _)
\* s is t with some elements left out
IsSubseq(s, t) ==
    IF s = <<>> THEN TRUE
    ELSE IF t = <<>> THEN FALSE
    ELSE IF Head(s) = Head(t) THEN IsSubseq(Tail(s), Tail(t))
    ELSE IsSubseq(s, Tail(t))

\* C10: at most one stream write is in progress, and the writes that reached the
\* stream did so in the order writeChunk was called: the stream's writes are the
\* chunks of the calls whose callback has run, in call order, and no call's
\* callback runs before that of an earlier call
C10_WritesSerialized ==
    LET q == strat.writeQueue
    IN /\ Cardinality(Writing(RxState)) <= 1
       /\ IsSubseq(store.fsStream, [k \in DOMAIN q |-> q[k].data])
       /\ \A j, k \in DOMAIN q : (j < k /\ q[j].st = "queued") => q[k].st = "queued"
       /\ \A k \in DOMAIN q :
             q[k].st \in {"writing", "ok"} => \E p \in DOMAIN store.fsStream :
                                                  store.fsStream[p] = q[k].data

\* three writeChunk calls are outstanding: the first write is done, the second is in
\* progress, the third waits
C10_Witness ==
    /\ strat.type = "filesystem"
    /\ Len(strat.writeQueue) = 3
    /\ strat.writeQueue[1].st = "ok"
    /\ strat.writeQueue[2].st = "writing"
    /\ strat.writeQueue[3].st = "queued"
    /\ Len(store.fsStream) = 2

(***************************************************************************)
(* The ConfirmPage: detectBestStrategy and the fallback chain of           *)
(* handleAccept.                                                           *)
(***************************************************************************)
\* the object detectBestStrategy returns; warning and recommendedBrowser are NoValue
\* where the code leaves them undefined, and the kind of the text otherwise
StrategyResult(strategy, warning, recommendedBrowser) ==
    [strategy |-> strategy, supported |-> TRUE, warning |-> warning,
     recommendedBrowser |-> recommendedBrowser]

\* a detectBestStrategy whose comparisons with the thresholds are not strict
detectBestStrategyAtThreshold(mobile, hasFS, hasIDB, sizeKiB) ==
    IF ~mobile /\ hasFS THEN StrategyResult("filesystem", NoValue, NoValue)
    ELSE IF hasIDB
    THEN IF sizeKiB >= INDEXEDDB_MAX_KIB
         THEN StrategyResult("memory", "exceeds IndexedDB limit", "Chrome or Edge desktop")
         ELSE IF mobile /\ sizeKiB >= MOBILE_WARNING_KIB
         THEN StrategyResult("indexeddb", "Large file on mobile", "Desktop browser")
         ELSE IF ~mobile /\ ~hasFS /\ sizeKiB >= LARGE_FILE_WARNING_KIB
         THEN StrategyResult("indexeddb", "Large file without File System API",
                             "Chrome or Edge")
         ELSE StrategyResult("indexeddb", NoValue, NoValue)
    ELSE IF sizeKiB >= MEMORY_RECOMMENDED_MAX_KIB
    THEN StrategyResult("memory", "Large file with memory storage", "Chrome or Edge desktop")
    ELSE StrategyResult("memory", NoValue, NoValue)

\* sizeKiB: fileSize in KiB, rounded up
detectBestStrategy(mobile, hasFS, hasIDB, sizeKiB) ==
    IF ~mobile /\ hasFS THEN StrategyResult("filesystem", NoValue, NoValue)
    ELSE IF hasIDB
    THEN IF sizeKiB > INDEXEDDB_MAX_KIB
         THEN StrategyResult("memory", "exceeds IndexedDB limit", "Chrome or Edge desktop")
         ELSE IF mobile /\ sizeKiB > MOBILE_WARNING_KIB
         THEN StrategyResult("indexeddb", "Large file on mobile", "Desktop browser")
         ELSE IF ~mobile /\ ~hasFS /\ sizeKiB > LARGE_FILE_WARNING_KIB
         THEN StrategyResult("indexeddb", "Large file without File System API",
                             "Chrome or Edge")
         ELSE StrategyResult("indexeddb", NoValue, NoValue)
    ELSE IF sizeKiB > MEMORY_RECOMMENDED_MAX_KIB
    THEN StrategyResult("memory", "Large file with memory storage", "Chrome or Edge desktop")
    ELSE StrategyResult("memory", NoValue, NoValue)

\* the ways init of a strategy can end in the browser of the ConfirmPage
InitOutcomes(type, a) ==
    CASE type = "filesystem" ->
             (IF a.hasFS THEN {"ok"} ELSE {}) \cup {"USER_CANCELLED", "PERMISSION_DENIED", "OTHER"}
      [] type = "indexeddb" -> (IF a.hasIDB THEN {"ok"} ELSE {}) \cup {"OTHER"}
      [] OTHER -> {"ok"}

\* a loop that gives up on an error it does not name
MovesOnNamedOnly(outcome) == outcome \in {"USER_CANCELLED", "PERMISSION_DENIED"}

\* the catch block of the loop: after it the loop goes on to the next type
MovesOn(outcome) == outcome # "ok"

\* the user presses Accept: handleAccept runs up to the first `await init`
AcceptStart ==
    /\ accept.pc = "idle"
    /\ accept' = [accept EXCEPT
                    !.pc = "init",
                    !.idx = IndexOf(detectBestStrategy(accept.mobile, accept.hasFS,
                                                       accept.hasIDB,
                                                       accept.sizeKiB).strategy),
                    !.tried = <<>>]
    /\ UNCHANGED <<sndVars, chanVars, rtcVars, page, strat, store, env>>

\* init of the strategy being tried settles and handleAccept runs on to its next
\* await or to its end
AcceptInitDone ==
    /\ accept.pc = "init"
    /\ \E outcome \in InitOutcomes(fallbackOrder[accept.idx], accept), rnd \in {0, 1} :
          LET type == fallbackOrder[accept.idx]
              tried == Append(accept.tried, [type |-> type, outcome |-> outcome])
              sid == SessionId(store.now, rnd)
          IN IF outcome = "ok"
             THEN \* setStorageStrategy, emit('accept-transfer'), navigate('/transfer')
                  /\ accept' = [accept EXCEPT !.pc = "done", !.tried = tried,
                                              !.strategyType = type,
                                              !.emitted = Append(@, "accept-transfer")]
                  /\ strat' = NewStrategy(type, Len(store.sessions) + 1, sid)
                  /\ store' = [store EXCEPT
                                 !.sessions = Append(@, [type |-> type, sessionId |-> sid]),
                                 !.fsStreamState = IF type = "filesystem" THEN "open" ELSE @]
                  /\ page' = NewPage(fileSize, TRUE)
             ELSE /\ accept' = [accept EXCEPT
                                  !.tried = tried,
                                  !.idx = @ + 1,
                                  !.pc = IF MovesOn(outcome) /\ accept.idx < Len(fallbackOrder)
                                         THEN "init" ELSE "fatal"]
                  /\ UNCHANGED <<strat, store, page>>
    /\ UNCHANGED <<sndVars, chanVars, rtcVars, env>>

\* the ConfirmPage before Accept is pressed, in any browser, for the given sizes
ConfirmPages(sizes) ==
    [pc : {"idle"}, mobile : BOOLEAN, hasFS : BOOLEAN, hasIDB : BOOLEAN, sizeKiB : sizes,
     idx : {0}, tried : {<<>>}, strategyType : {NoValue}, emitted : {<<>>}]

NoStrategy == NewStrategy("none", 0, SessionId(0, 0))

\* A file of 2 GiB or more has no byte count in the model: of such a file only the
\* size the ConfirmPage sees, in KiB, is modelled.
InitAccept ==
    /\ InitSender({0, CHUNK_SIZE}, {"connecting"})
    /\ InitChannel(MaxChannel)
    /\ InitProviderOpen
    /\ accept \in ConfirmPages({KiB(fileSize), INDEXEDDB_MAX_KIB, INDEXEDDB_MAX_KIB + 1})
    /\ page = [NewPage(fileSize, FALSE) EXCEPT !.route = "confirm"]
    /\ strat = NoStrategy
    /\ store = [NewStore("none") EXCEPT !.sessions = <<>>]
    /\ env = NewEnv

NextAccept ==
    \/ AcceptStart
    \/ AcceptInitDone

SpecAccept == InitAccept /\ [][NextAccept]_vars

\* C8: the backends tried are consecutive entries of filesystem, indexeddb, memory
\* that start at the result of detectBestStrategy; every one of them but the last
\* failed, whatever the failure; handleAccept never ends without a backend;
\* accept-transfer is emitted, once, only when an init has succeeded, and the
\* backend stored is the one whose init succeeded
C8_FallbackChain ==
    LET first == IndexOf(detectBestStrategy(accept.mobile, accept.hasFS, accept.hasIDB,
                                            accept.sizeKiB).strategy)
        n == Len(accept.tried)
    IN /\ first + n - 1 <= 3
       /\ \A k \in 1..n :
             accept.tried[k].type = <<"filesystem", "indexeddb", "memory">>[first + k - 1]
       /\ \A k \in 1..(n - 1) : accept.tried[k].outcome # "ok"
       /\ accept.pc # "fatal"
       /\ accept.pc = "init" => (n > 0 => accept.tried[n].outcome # "ok") /\ accept.emitted = <<>>
       /\ accept.pc = "idle" => accept.emitted = <<>> /\ ~page.storageStrategy
       /\ accept.pc = "done" =>
             /\ n > 0 /\ accept.tried[n].outcome = "ok"
             /\ accept.emitted = <<"accept-transfer">>
             /\ accept.strategyType = accept.tried[n].type
             /\ strat.type = accept.tried[n].type
             /\ page.storageStrategy

\* the picker failed with an error the loop does not name, the database could not
\* be opened, and the memory backend was stored
C8_Witness ==
    /\ accept.pc = "done"
    /\ accept.tried = <<[type |-> "filesystem", outcome |-> "OTHER"],
                        [type |-> "indexeddb", outcome |-> "OTHER"],
                        [type |-> "memory", outcome |-> "ok"]>>
    /\ strat.type = "memory"
    /\ accept.emitted = <<"accept-transfer">>

(***************************************************************************)
(* Events of the peer connection and its data channel, and the provider's  *)
(* close and reset.                                                        *)
(***************************************************************************)
Conns == 1..MaxConns

IceStates == {"checking", "connected", "completed", "disconnected", "failed", "closed"}

\* an event handler whose whole effect is updateState(state)
StateEvent(state) ==
    /\ env.events < MaxEvents
    /\ env' = [env EXCEPT !.events = @ + 1]
    /\ updateState(state)
    /\ UNCHANGED <<sndVars, chanVars, stateChangeHandlerRef, msgVars, accept>>

\* channel.onopen
ChannelOpenEvent ==
    \E c \in Conns :
       /\ dcState[c] = "connecting"
       /\ dcState' = [dcState EXCEPT ![c] = "open"]
       /\ StateEvent("connected")
       /\ UNCHANGED <<peerConnectionRef, dataChannelRef, pcCount, pcState>>

\* channel.onclose: the last event of a channel, whether it was closed from
\* this side or not
ChannelCloseEvent ==
    \E c \in Conns :
       /\ dcState[c] \in {"connecting", "open", "closing"}
       /\ dcState' = [dcState EXCEPT ![c] = "gone"]
       /\ StateEvent("disconnected")
       /\ UNCHANGED <<peerConnectionRef, dataChannelRef, pcCount, pcState>>

\* channel.onerror: the channel then closes
ChannelErrorEvent ==
    \E c \in Conns :
       /\ dcState[c] \in {"connecting", "open"}
       /\ dcState' = [dcState EXCEPT ![c] = "closing"]
       /\ StateEvent("failed")
       /\ UNCHANGED <<peerConnectionRef, dataChannelRef, pcCount, pcState>>

\* pc.oniceconnectionstatechange: the handler reads pc.iceConnectionState, which is
\* 'closed' once pc.close() was called
IceStateChange ==
    \E c \in Conns, s \in IceStates \ {"closed"} :
       /\ pcState[c] # "none"
       /\ pcState' = IF pcState[c] = "live" /\ s = "failed"
                     THEN [pcState EXCEPT ![c] = "failed"] ELSE pcState
       /\ StateEvent(IF pcState[c] = "closed" THEN "closed" ELSE s)
       /\ UNCHANGED <<peerConnectionRef, dataChannelRef, pcCount, dcState>>

\* createPeerConnection when it makes a new connection (createAnswer)
CreatePeerConnection ==
    /\ pcCount < MaxConns
    /\ IF peerConnectionRef = 0 THEN TRUE
       ELSE pcState[peerConnectionRef] \in {"closed", "failed"}
    /\ pcCount' = pcCount + 1
    /\ pcState' = [pcState EXCEPT ![pcCount + 1] = "live"]
    /\ peerConnectionRef' = pcCount + 1
    /\ UNCHANGED <<sndVars, chanVars, dataChannelRef, dcState, connectionState,
                   stateChangeHandlerRef, messageHandlerRef, msgVars, rxVars>>

\* pc.ondatachannel, then setupDataChannel unless the current channel is open
OnDataChannel ==
    \E c \in Conns :
       /\ pcState[c] = "live" /\ dcState[c] = "none"
       /\ IF dataChannelRef # 0 /\ dcState[dataChannelRef] = "open"
          THEN dcState' = [dcState EXCEPT ![c] = "unhandled"] /\ UNCHANGED dataChannelRef
          ELSE dcState' = [dcState EXCEPT ![c] = "connecting"] /\ dataChannelRef' = c
       /\ UNCHANGED <<sndVars, chanVars, peerConnectionRef, pcCount, pcState,
                      connectionState, stateChangeHandlerRef, messageHandlerRef, msgVars,
                      rxVars>>

\* close()
Close ==
    /\ CloseRefs
    /\ updateState("closed")
    /\ UNCHANGED <<sndVars, chanVars, pcCount, stateChangeHandlerRef, msgVars, accept, env>>

\* reset()
Reset ==
    /\ CloseRefs
    /\ connectionState' = "new"
    /\ RxTask(CallStateHandler(RxState, "closed"))
    /\ messageQueueRef' = <<>>
    /\ UNCHANGED <<sndVars, chanVars, pcCount, stateChangeHandlerRef, messageSeqRef,
                   processedMessagesRef, arrived, handled, attachCount, replayed,
                   accept, env>>

\* the provider before any connection was made, with the ConfirmPage's state handler
InitProviderNew ==
    /\ connectionState = "new"
    /\ peerConnectionRef = 0 /\ dataChannelRef = 0 /\ pcCount = 0
    /\ pcState = [c \in Conns |-> "none"]
    /\ dcState = [c \in Conns |-> "none"]
    /\ stateChangeHandlerRef = "confirm" /\ messageHandlerRef = NoValue
    /\ messageSeqRef = 0 /\ processedMessagesRef = {} /\ messageQueueRef = <<>>
    /\ arrived = <<>> /\ handled = <<>> /\ attachCount = 0 /\ replayed = FALSE

InitClose ==
    /\ InitSender({0, CHUNK_SIZE}, {"connecting"})
    /\ InitChannel(MaxChannel)
    /\ InitProviderNew
    /\ accept \in ConfirmPages({KiB(fileSize)})
    /\ page = [NewPage(fileSize, FALSE) EXCEPT !.route = "confirm"]
    /\ strat = NoStrategy
    /\ store = [NewStore("none") EXCEPT !.sessions = <<>>]
    /\ env = NewEnv

NextClose ==
    \/ CreatePeerConnection
    \/ OnDataChannel
    \/ ChannelOpenEvent
    \/ ChannelCloseEvent
    \/ ChannelErrorEvent
    \/ IceStateChange
    \/ Close
    \/ Reset

SpecClose == InitClose /\ [][NextClose]_vars

\* C9: once close() has been called the reported state is 'closed' and stays so as
\* long as no new peer connection is created, whatever events of the closed
\* connection arrive late: a step that starts in state 'closed' with no current
\* connection and creates none ends in state 'closed' (or in 'new', which only
\* reset() reports)
C9_ClosedStaysClosed ==
    [][(connectionState = "closed" /\ peerConnectionRef = 0 /\ pcCount' = pcCount)
          => connectionState' \in {"closed", "new"}]_vars

(***************************************************************************)
(* A connection that fails during a transfer on the indexeddb backend, and *)
(* the receiver trying again.                                              *)
(***************************************************************************)
\* after a failed transfer the user is back on the ConfirmPage, later by the clock
ReturnToConfirm ==
    /\ page.route = "transfer" /\ page.status = "error"
    /\ store.now < MaxClock
    /\ page' = [NewPage(fileSize, FALSE) EXCEPT !.route = "confirm"]
    /\ accept' = [accept EXCEPT !.pc = "idle", !.idx = 0, !.tried = <<>>,
                                !.strategyType = NoValue, !.emitted = <<>>]
    /\ store' = [store EXCEPT !.now = @ + 1]
    /\ messageHandlerRef' = NoValue
    /\ stateChangeHandlerRef' = "confirm"
    /\ UNCHANGED <<sndVars, chanVars, connVars, connectionState, msgVars, strat, env>>

AbortSizes == {CHUNK_SIZE + 1, SmallChunks * CHUNK_SIZE}

\* everything sendFile hands to the channel for a file of the given size
Framing(size) ==
    <<MetaMsg(size)>>
    \o [k \in 1..(2 * TotalChunks(size)) |->
          LET i == (k - 1) \div 2
          IN IF k % 2 = 1 THEN HeaderMsg(i, SliceSize(size, i))
                          ELSE BinaryMsg(i, SliceSize(size, i))]
    \o <<CompleteMsg>>

\* sendFile has returned and the whole file is in flight: the receiver has not
\* been handed a message yet
InitSent(sizes) ==
    /\ fileSize \in sizes
    /\ sndChannel = "open" /\ sndPc = "done" /\ sndI = TotalChunks(fileSize)
    /\ sndStatus = "complete" /\ sndHashVerified = "null" /\ sndPage = "transfer"
    /\ sent = Framing(fileSize)
    /\ channel = sent /\ unsent = 0 /\ chanCap = Len(sent) /\ relay = "live"

InitAbort ==
    /\ InitSent(AbortSizes)
    /\ InitProviderOpen
    /\ InitReceiver({"indexeddb"})

NextAbort ==
    \/ Deliver
    \/ MountTransferPage
    \/ TxCompleteAct
    \/ HashDone
    \/ SenderHandleComplete
    \/ ChannelCloseEvent
    \/ ChannelErrorEvent
    \/ IceStateChange
    \/ ReturnToConfirm
    \/ AcceptStart
    \/ AcceptInitDone

SpecAbort == InitAbort /\ [][NextAbort]_vars

\* the session ids of the indexeddb strategies initialised so far
IdbSessions == SelectSeq(store.sessions, LAMBDA x : x.type = "indexeddb")

Instances == {1, 2}

\* the strategy instance i
StratOf(i) == IF i = 1 THEN strat ELSE env.other

\* the state the operators of the strategy work on, for instance i
RxOf(i) == [page |-> page, strat |-> StratOf(i), store |-> store, micro |-> <<>>]

\* writeChunk calls the caller of instance i makes at most
WriteLimit(i) == IF i = 1 THEN MaxChunks ELSE SmallChunks

\* chunk lengths: full chunks for instance 1, one byte for instance 2
WriteLen(i) == IF i = 1 THEN CHUNK_SIZE ELSE 1

\* a caller before its first call; order is the order of its chunk indices
NewCaller(order) ==
    [pc |-> "idle", order |-> order, writes |-> <<>>, durable |-> {},
     finalized |-> FALSE, result |-> NoFile, cleaned |-> FALSE]

\* the index of the next writeChunk call of the caller of instance i
NextIndex(i) ==
    LET c == env.callers[i]
    IN IF c.order = "up" THEN Len(c.writes) ELSE WriteLimit(i) - 1 - Len(c.writes)

\* the caller once the promise it awaits has settled with the continuation t
Resume(c, t) ==
    CASE t.k = "hmOk" -> [c EXCEPT !.pc = "idle"]
      [] t.k = "htcFile" -> [c EXCEPT !.pc = "idle", !.finalized = TRUE, !.result = t.data]
      [] OTHER -> [c EXCEPT !.pc = "failed"]

\* the caller after a call or a completion left the continuations micro
Settle(c, micro) == IF micro = <<>> THEN c ELSE Resume(c, Head(micro))

\* instance i and its caller after a step that ended in state R and caller c
SetInstance(i, R, c) ==
    /\ strat' = IF i = 1 THEN R.strat ELSE strat
    /\ store' = R.store
    /\ env' = [env EXCEPT !.other = IF i = 2 THEN R.strat ELSE @, !.callers[i] = c]
    /\ UNCHANGED <<sndVars, chanVars, rtcVars, page, accept>>

\* await strategy.writeChunk(i, chunk)
CallWriteChunk ==
    \E i \in Instances :
        LET c == env.callers[i]
            idx == NextIndex(i)
            data == ChunkData(idx, WriteLen(i))
            R == IdbWriteChunk(RxOf(i), idx, data)
            c1 == [c EXCEPT !.pc = "writing",
                            !.writes = Append(@, [index |-> idx, data |-> data])]
        IN /\ c.pc = "idle" /\ ~c.finalized /\ ~c.cleaned
           /\ Len(c.writes) < WriteLimit(i)
           /\ SetInstance(i, R, Settle(c1, R.micro))

\* await strategy.finalize()
CallFinalize ==
    \E i \in Instances :
        LET c == env.callers[i]
            R == IdbFinalize(RxOf(i))
        IN /\ c.pc = "idle" /\ ~c.finalized /\ ~c.cleaned
           /\ SetInstance(i, R, Settle([c EXCEPT !.pc = "finalizing"], R.micro))

\* await strategy.cleanup()
CallCleanup ==
    \E i \in Instances :
        LET c == env.callers[i]
            R == IdbCleanup(RxOf(i))
        IN /\ c.pc = "idle" /\ ~c.cleaned
           /\ SetInstance(i, R, [c EXCEPT !.pc = "cleaning"])

\* the head transaction of the database completes
IdbTxDone ==
    /\ store.idbTx # <<>>
    /\ LET tx == Head(store.idbTx)
           i == tx.inst
           c == env.callers[i]
           R == TxComplete(RxOf(i))
           c1 == IF tx.kind = "flush"
                 THEN [c EXCEPT !.durable = @ \cup Range(tx.puts)]
                 ELSE c
       IN SetInstance(i, R, IF tx.kind = "cleanup"
                            THEN [c1 EXCEPT !.pc = "idle", !.cleaned = TRUE]
                            ELSE Settle(c1, R.micro))

InitIdb ==
    /\ InitSender({0}, {"open"})
    /\ InitChannel(MaxChannel)
    /\ InitProviderOpen
    /\ page = NewPage(fileSize, TRUE)
    /\ strat = NewStrategy("indexeddb", 1, SessionId(1, 0))
    /\ store = NewStore("indexeddb")
    /\ accept = Accepted("indexeddb")
    /\ env = [dups |-> 0, faults |-> 0, events |-> 0,
              other |-> NewStrategy("indexeddb", 2, SessionId(1, 1)),
              callers |-> <<NewCaller("up"), NewCaller("down")>>]

NextIdb ==
    \/ CallWriteChunk
    \/ CallFinalize
    \/ CallCleanup
    \/ IdbTxDone

SpecIdb == InitIdb /\ [][NextIdb]_vars

\* the session id of instance i
SessionOf(i) == StratOf(i).sessionId

\* the records of the session of instance i in the object store
StoredOf(i) == {r \in store.idbStore : r.sessionId = SessionOf(i)}

\* C11: the object store holds no record of a session whose cleanup has completed,
\* and of every other session it holds exactly the records that session's completed
\* flushes put, whether or not the cleanup of another session ran meanwhile
C11_CleanupIsolation ==
    \A i \in Instances :
        StoredOf(i) = IF env.callers[i].cleaned THEN {} ELSE env.callers[i].durable

\* the cleanup of instance 1 has completed after more than one flush of its session,
\* and the records instance 2 flushed before that are in the store
C11_Witness ==
    /\ env.callers[1].cleaned
    /\ Cardinality(env.callers[1].durable) > BUFFER_SIZE
    /\ ~env.callers[2].cleaned
    /\ Cardinality(StoredOf(2)) = SmallChunks
    /\ store.cleanedSessions = {SessionOf(1)}

\* the records of the chunks the caller has written, in call order
WrittenRecords(i) ==
    [k \in DOMAIN env.callers[i].writes |->
        IdbRecord(SessionOf(i), env.callers[i].writes[k].index, env.callers[i].writes[k].data)]

\* C12: between awaited calls, after k < BUFFER_SIZE writeChunk calls the buffer
\* holds the k chunks and chunksWritten is 0; after BUFFER_SIZE calls the buffer is
\* empty and chunksWritten is BUFFER_SIZE
C12_FlushThreshold ==
    \A i \in Instances :
        LET c == env.callers[i]
            k == Len(c.writes)
        IN (c.pc = "idle" /\ ~c.finalized /\ ~c.cleaned) =>
              /\ k < BUFFER_SIZE => /\ StratOf(i).buffer = WrittenRecords(i)
                                    /\ StratOf(i).chunksWritten = 0
              /\ k = BUFFER_SIZE => /\ StratOf(i).buffer = <<>>
                                    /\ StratOf(i).chunksWritten = BUFFER_SIZE

\* the caller of instance 1 is between calls after exactly BUFFER_SIZE writeChunk calls
C12_Witness ==
    /\ env.callers[1].pc = "idle"
    /\ Len(env.callers[1].writes) = BUFFER_SIZE
    /\ ~env.callers[1].finalized /\ ~env.callers[1].cleaned
    /\ strat.chunksWritten = BUFFER_SIZE

\* the payloads of the chunks the caller has written, by ascending chunk index
PayloadsAscending(i) ==
    LET w == env.callers[i].writes
    IN [p \in 1..Len(w) |->
           w[CHOOSE k \in 1..Len(w) :
                Cardinality({j \in 1..Len(w) : w[j].index < w[k].index}) = p - 1].data]

UpperCase ==
    <<"A", "B", "C", "D", "E", "F", "G", "H", "I", "J", "K", "L", "M", "N", "O", "P",
      "Q", "R", "S", "T", "U", "V", "W", "X", "Y", "Z">>

LowerCase ==
    <<"a", "b", "c", "d", "e", "f", "g", "h", "i", "j", "k", "l", "m", "n", "o", "p",
      "q", "r", "s", "t", "u", "v", "w", "x", "y", "z">>

\* the letter a case-insensitive pattern compares
FoldCase(c) ==
    IF \E k \in DOMAIN UpperCase : UpperCase[k] = c
    THEN LowerCase[CHOOSE k \in DOMAIN UpperCase : UpperCase[k] = c]
    ELSE c

\* /pattern/i.test(userAgent): the pattern occurs somewhere in the string, in any
\* letter case
Test(pattern, userAgent) ==
    \E i \in 1..(Len(userAgent) - Len(pattern) + 1) :
       \A j \in 1..Len(pattern) : FoldCase(userAgent[i + j - 1]) = FoldCase(pattern[j])

\* the words isMobile looks for
mobilePatterns ==
    {<<"M", "o", "b", "i", "l", "e">>,
     <<"A", "n", "d", "r", "o", "i", "d">>,
     <<"i", "P", "h", "o", "n", "e">>,
     <<"i", "P", "a", "d">>,
     <<"i", "P", "o", "d">>,
     <<"w", "e", "b", "O", "S">>,
     <<"B", "l", "a", "c", "k", "B", "e", "r", "r", "y">>,
     <<"W", "i", "n", "d", "o", "w", "s", " ", "P", "h", "o", "n", "e">>,
     <<"O", "p", "e", "r", "a", " ", "M", "i", "n", "i">>,
     <<"I", "E", "M", "o", "b", "i", "l", "e">>}

\* user agents of phones and tablets; the last two spell their word in another
\* letter case
mobileUserAgents ==
    {<<"(", "i", "P", "h", "o", "n", "e", ";", " ", "C", "P", "U", " ", "i", "P", "h",
       "o", "n", "e", " ", "O", "S", " ", "1", "4", "_", "0", ")">>,
     <<"(", "i", "P", "a", "d", ";", " ", "C", "P", "U", " ", "O", "S", " ", "1", "4",
       "_", "0", " ", "l", "i", "k", "e", " ", "M", "a", "c", " ", "O", "S", " ", "X",
       ")">>,
     <<"(", "L", "i", "n", "u", "x", ";", " ", "A", "n", "d", "r", "o", "i", "d", " ",
       "1", "0", ";", " ", "S", "M", "-", "G", "9", "6", "0", "F", ")">>,
     <<"P", "i", "x", "e", "l", " ", "5", " ", "M", "o", "b", "i", "l", "e", " ", "S",
       "a", "f", "a", "r", "i">>,
     <<"(", "i", "P", "o", "d", " ", "t", "o", "u", "c", "h", ")">>,
     <<"(", "w", "e", "b", "O", "S", "/", "1", ".", "0", ";", " ", "U", ")">>,
     <<"B", "l", "a", "c", "k", "B", "e", "r", "r", "y", " ", "9", "9", "0", "0">>,
     <<"W", "i", "n", "d", "o", "w", "s", " ", "P", "h", "o", "n", "e", " ", "8", ".",
       "0">>,
     <<"O", "p", "e", "r", "a", " ", "M", "i", "n", "i", "/", "3", "6", ".", "2">>,
     <<"I", "E", "M", "o", "b", "i", "l", "e", "/", "1", "0", ".", "0">>,
     <<"A", "N", "D", "R", "O", "I", "D", " ", "T", "V">>,
     <<"i", "p", "a", "d">>}

\* user agents of desktop browsers, a string with parts of two words of
\* mobilePatterns, and the empty string
desktopUserAgents ==
    {<<"(", "W", "i", "n", "d", "o", "w", "s", " ", "N", "T", " ", "1", "0", ".", "0",
       ";", " ", "W", "i", "n", "6", "4", ";", " ", "x", "6", "4", ")">>,
     <<"(", "M", "a", "c", "i", "n", "t", "o", "s", "h", ";", " ", "I", "n", "t", "e",
       "l", " ", "M", "a", "c", " ", "O", "S", " ", "X", " ", "1", "0", "_", "1", "5",
       "_", "7", ")">>,
     <<"(", "X", "1", "1", ";", " ", "L", "i", "n", "u", "x", " ", "x", "8", "6", "_",
       "6", "4", ")">>,
     <<"r", "v", ":", "8", "9", ".", "0", " ", "F", "i", "r", "e", "f", "o", "x", "/",
       "8", "9", ".", "0">>,
     <<"O", "p", "e", "r", "a", "/", "9", ".", "8", "0", " ", "M", "i", "n", "i">>,
     <<>>}

\* the word iPad, as the user agent of a tablet spells it
IPad == <<"i", "P", "a", "d">>

NoNavigator == [defined |-> FALSE, userAgent |-> <<>>]

\* global.navigator: an object with a userAgent, or not defined at all
Navigators ==
    {[defined |-> TRUE, userAgent |-> ua] : ua \in mobileUserAgents \cup desktopUserAgents}
        \cup {NoNavigator}

NoWindow == [defined |-> FALSE, showSaveFilePicker |-> FALSE, indexedDB |-> "absent"]

\* global.window: showSaveFilePicker is a property of it or is not; indexedDB is not a
\* property of it, is null, or is the database object
Windows ==
    [defined : {TRUE}, showSaveFilePicker : BOOLEAN, indexedDB : {"absent", "null", "object"}]
        \cup {NoWindow}

\* an isMobile that has no pattern for tablets
isMobileNoTablet(navigator) ==
    /\ navigator.defined
    /\ \E pattern \in mobilePatterns \ {IPad} : Test(pattern, navigator.userAgent)

isMobile(navigator) ==
    /\ navigator.defined
    /\ \E pattern \in mobilePatterns : Test(pattern, navigator.userAgent)

isDesktop(navigator) == ~isMobile(navigator)

\* a check that takes the picker for usable only where the database is, too
hasFileSystemAccessWithDb(window) ==
    window.defined /\ window.showSaveFilePicker /\ window.indexedDB = "object"

hasFileSystemAccess(window) == window.defined /\ window.showSaveFilePicker

\* a check without the comparison with null
hasIndexedDBInWindow(window) == window.defined /\ window.indexedDB # "absent"

hasIndexedDB(window) ==
    window.defined /\ window.indexedDB # "absent" /\ window.indexedDB # "null"

\* the sizes of the files offered, in KiB: below, at and above each threshold, an
\* empty file, 600 MiB, 3 GiB and 5 GiB
DetectSizes ==
    UNION {{t - 1, t, t + 1} : t \in {MOBILE_WARNING_KIB, LARGE_FILE_WARNING_KIB,
                                      INDEXEDDB_MAX_KIB}}
        \cup {0, 600 * 1024, 3 * 1024 * 1024, 5 * 1024 * 1024}

\* a page that has not called the detection yet
Undetected(navigator, window, sizeKiB) ==
    [pc |-> "idle", navigator |-> navigator, window |-> window, sizeKiB |-> sizeKiB,
     isMobile |-> FALSE, isDesktop |-> FALSE,
     result |-> StrategyResult(NoValue, NoValue, NoValue)]

\* isMobile(), isDesktop() and detectBestStrategy(fileSize) are called in the browser
\* of the page
Detect ==
    /\ accept.pc = "idle"
    /\ accept' = [accept EXCEPT
                    !.pc = "detected",
                    !.isMobile = isMobile(accept.navigator),
                    !.isDesktop = isDesktop(accept.navigator),
                    !.result = detectBestStrategy(isMobile(accept.navigator),
                                                  hasFileSystemAccess(accept.window),
                                                  hasIndexedDB(accept.window),
                                                  accept.sizeKiB)]
    /\ UNCHANGED <<sndVars, chanVars, rtcVars, page, strat, store, env>>

InitDetect ==
    /\ InitSender({0}, {"connecting"})
    /\ InitChannel(MaxChannel)
    /\ InitProviderOpen
    /\ \E navigator \in Navigators, window \in Windows, sizeKiB \in DetectSizes :
          accept = Undetected(navigator, window, sizeKiB)
    /\ page = [NewPage(fileSize, FALSE) EXCEPT !.route = "confirm"]
    /\ strat = NoStrategy
    /\ store = [NewStore("none") EXCEPT !.sessions = <<>>]
    /\ env = NewEnv

NextDetect == Detect

SpecDetect == InitDetect /\ [][NextDetect]_vars

\* C14: once the detection has run in a browser whose user agent is that of a phone
\* or tablet, or that isMobile takes for one, isMobile has answered TRUE and the
\* strategy is not filesystem, whatever the size and whether or not the window has
\* showSaveFilePicker; in every browser, also one without a navigator, isMobile and
\* isDesktop have answered differently
C14_MobileNeverFilesystem ==
    accept.pc = "detected" =>
        /\ accept.isMobile = ~accept.isDesktop
        /\ (accept.navigator.defined /\ accept.navigator.userAgent \in mobileUserAgents)
              => accept.isMobile
        /\ accept.isMobile => accept.result.strategy # "filesystem"
        /\ (accept.navigator.defined /\ accept.navigator.userAgent \in desktopUserAgents)
              => accept.isDesktop

\* a tablet whose window has showSaveFilePicker and the database was given
\* indexeddb for a file of 1 GiB
C14_Witness ==
    /\ accept.pc = "detected"
    /\ accept.navigator.defined
    /\ Test(IPad, accept.navigator.userAgent)
    /\ accept.navigator.userAgent \in mobileUserAgents
    /\ accept.window.showSaveFilePicker
    /\ accept.window.indexedDB = "object"
    /\ accept.sizeKiB = LARGE_FILE_WARNING_KIB
    /\ accept.isMobile /\ ~accept.isDesktop
    /\ accept.result.strategy = "indexeddb"

\* C15: once the detection has run in a desktop browser (a desktop user agent, or
\* a browser isDesktop takes for one) whose window has showSaveFilePicker, the
\* result is the filesystem strategy, supported, with neither a warning nor a
\* recommendedBrowser, whatever the size of the file and with or without the database
C15_DesktopFilesystem ==
    (/\ accept.pc = "detected"
     /\ \/ accept.isDesktop
        \/ accept.navigator.defined /\ accept.navigator.userAgent \in desktopUserAgents
     /\ accept.window.defined /\ accept.window.showSaveFilePicker)
        => /\ accept.result.strategy = "filesystem"
           /\ accept.result.supported
           /\ accept.result.warning = NoValue
           /\ accept.result.recommendedBrowser = NoValue

\* a desktop browser with the picker and without the database was given filesystem,
\* without a warning, for a file of 5 GiB
C15_Witness ==
    /\ accept.pc = "detected"
    /\ accept.navigator.defined
    /\ accept.navigator.userAgent \in desktopUserAgents
    /\ accept.isDesktop
    /\ accept.window.showSaveFilePicker
    /\ accept.window.indexedDB = "absent"
    /\ accept.sizeKiB = 5 * 1024 * 1024
    /\ accept.result = StrategyResult("filesystem", NoValue, NoValue)

\* C16: once the detection has run in a browser whose window has no
\* showSaveFilePicker: where the window has the database, the strategy is indexeddb
\* for every size below 2 GiB, and memory with a warning and a recommendedBrowser
\* for every size above 2 GiB; where the window has no database either (indexedDB
\* missing or null, or no window at all), the strategy is memory for every size,
\* on mobile as on desktop
C16_WithoutFilesystem ==
    (/\ accept.pc = "detected"
     /\ ~(accept.window.defined /\ accept.window.showSaveFilePicker))
        => IF accept.window.defined /\ accept.window.indexedDB = "object"
           THEN /\ accept.sizeKiB < INDEXEDDB_MAX_KIB => accept.result.strategy = "indexeddb"
                /\ accept.sizeKiB > INDEXEDDB_MAX_KIB =>
                      /\ accept.result.strategy = "memory"
                      /\ accept.result.warning # NoValue
                      /\ accept.result.recommendedBrowser # NoValue
           ELSE accept.result.strategy = "memory"

\* a browser with the database and without the picker was given memory, with a
\* warning and a recommendedBrowser, for a file of 3 GiB
C16_Witness ==
    /\ accept.pc = "detected"
    /\ accept.window.defined
    /\ ~accept.window.showSaveFilePicker
    /\ accept.window.indexedDB = "object"
    /\ accept.sizeKiB = 3 * 1024 * 1024
    /\ accept.result.strategy = "memory"
    /\ accept.result.warning # NoValue
    /\ accept.result.recommendedBrowser # NoValue

\* the window has neither showSaveFilePicker nor the database
MemoryOnly(window) ==
    ~(window.defined /\ window.showSaveFilePicker)
        /\ ~(window.defined /\ window.indexedDB = "object")

\* C17 as stated: in every desktop browser without showSaveFilePicker the result
\* has a warning exactly when the size is above 1 GiB; on mobile, exactly when it is
\* above 500 MiB; with neither the picker nor the database, exactly when it is above
\* 500 MiB
C17_AsStated ==
    accept.pc = "detected" =>
        /\ (accept.isDesktop /\ ~(accept.window.defined /\ accept.window.showSaveFilePicker))
              => (accept.result.warning # NoValue <=> accept.sizeKiB > LARGE_FILE_WARNING_KIB)
        /\ accept.isMobile
              => (accept.result.warning # NoValue <=> accept.sizeKiB > MOBILE_WARNING_KIB)
        /\ MemoryOnly(accept.window)
              => (accept.result.warning # NoValue
                     <=> accept.sizeKiB > MEMORY_RECOMMENDED_MAX_KIB)

\* C17: in a desktop browser without showSaveFilePicker and with the database the
\* result has a warning exactly when the size is above 1 GiB; on mobile, exactly
\* when it is above 500 MiB; with neither the picker nor the database, on desktop
\* as on mobile, exactly when it is above 500 MiB; a file of exactly the threshold
\* has no warning
C17_WarningThresholds ==
    accept.pc = "detected" =>
        /\ (/\ accept.isDesktop
            /\ ~(accept.window.defined /\ accept.window.showSaveFilePicker)
            /\ ~MemoryOnly(accept.window))
              => (accept.result.warning # NoValue <=> accept.sizeKiB > LARGE_FILE_WARNING_KIB)
        /\ accept.isMobile
              => (accept.result.warning # NoValue <=> accept.sizeKiB > MOBILE_WARNING_KIB)
        /\ MemoryOnly(accept.window)
              => (accept.result.warning # NoValue
                     <=> accept.sizeKiB > MEMORY_RECOMMENDED_MAX_KIB)

\* a desktop browser with the database and without the picker was given indexeddb
\* without a warning for a file of exactly 1 GiB
C17_Witness ==
    /\ accept.pc = "detected"
    /\ accept.isDesktop
    /\ accept.window.defined
    /\ ~accept.window.showSaveFilePicker
    /\ accept.window.indexedDB = "object"
    /\ accept.sizeKiB = LARGE_FILE_WARNING_KIB
    /\ accept.result = StrategyResult("indexeddb", NoValue, NoValue)

(***************************************************************************)
(* reassembleChunks applied to chunks whose payloads are byte sequences.   *)
(***************************************************************************)
\* the largest number of chunks given to reassembleChunks
MaxParts == 3

\* the longest payload of a chunk
MaxPartLen == 2

\* the Uint8Array payloads: the byte sequences over 1 and 2 of up to MaxPartLen bytes
Payloads == UNION {[1..len -> {1, 2}] : len \in 0..MaxPartLen}

\* the chunk arrays of the callers: the indices 0..n-1, each once, in any order
ChunkArrays ==
    UNION {{chunks \in [1..n -> [index : 0..(n - 1), data : Payloads]] :
               \A j, k \in 1..n : chunks[j].index = chunks[k].index => j = k}
           : n \in 0..MaxParts}

\* sorted.reduce((sum, chunk) => sum + chunk.data.length, 0), by the places of the
\* bytes counted
totalSize(blocks) == Cardinality({<<k, b>> \in (DOMAIN blocks) \X (1..MaxPartLen) :
                                     b <= Len(blocks[k])})

\* the offset at which combined.set puts block k
offsetOf(blocks, k) == totalSize(SubSeq(blocks, 1, k - 1))

\* the bytes of the file: combined after every combined.set(chunk.data, offset)
combined(blocks) ==
    [p \in 1..totalSize(blocks) |->
        LET k == CHOOSE k \in DOMAIN blocks :
                    offsetOf(blocks, k) < p /\ p <= offsetOf(blocks, k) + Len(blocks[k])
        IN  blocks[k][p - offsetOf(blocks, k)]]

\* file.size and the bytes file.arrayBuffer() gives
FileSize(file) == totalSize(file.content)

FileBytes(file) == combined(file.content)

\* a caller that holds a chunk array and has not called reassembleChunks
NewReassembly(chunks, fileName, mimeType) ==
    [dups |-> 0, faults |-> 0, events |-> 0, chunks |-> chunks, fileName |-> fileName,
     mimeType |-> mimeType, called |-> FALSE, file |-> NoFile]

\* file = reassembleChunks(chunks, fileName, mimeType)
Reassemble ==
    /\ ~env.called
    /\ env' = [env EXCEPT !.called = TRUE,
                          !.file = reassembleChunks(env.chunks, env.fileName, env.mimeType)]
    /\ UNCHANGED <<sndVars, chanVars, rtcVars, page, strat, store, accept>>

InitReassemble ==
    /\ InitSender({0}, {"connecting"})
    /\ InitChannel(MaxChannel)
    /\ InitProviderOpen
    /\ page = NewPage(fileSize, FALSE)
    /\ strat = NoStrategy
    /\ store = NewStore("none")
    /\ accept = Accepted("memory")
    /\ \E chunks \in ChunkArrays, fileName \in {"test.bin", "empty.bin"},
          mimeType \in {"application/octet-stream", "text/plain"} :
          env = NewReassembly(chunks, fileName, mimeType)

NextReassemble == Reassemble

SpecReassemble == InitReassemble /\ [][NextReassemble]_vars

\* the chunk of the array that has the given index
ChunkAt(chunks, index) == chunks[CHOOSE k \in DOMAIN chunks : chunks[k].index = index]

\* the bytes of the payloads one after the other, by ascending index
AscendingBytes(chunks) ==
    LET n == Len(chunks)
        lens == [i \in 1..n |-> Len(ChunkAt(chunks, i - 1).data)]
        place == {<<i, b>> \in (1..n) \X (1..MaxPartLen) : b <= lens[i]}
        Rank(q) == Cardinality({r \in place : r[1] < q[1] \/ (r[1] = q[1] /\ r[2] <= q[2])})
    IN  [p \in 1..Cardinality(place) |->
            LET q == CHOOSE q \in place : Rank(q) = p
            IN  ChunkAt(chunks, q[1] - 1).data[q[2]]]

\* C18: the file reassembleChunks returns for chunks with the indices 0..n-1, each
\* once, given in any order, has the bytes of the payloads one after the other by
\* ascending index, so the same bytes for every order of the array; its size is the
\* sum of the payload lengths, its name and type are the ones given; for an empty
\* array the file has no bytes
C18_OrderIndependent ==
    env.called =>
        /\ FileBytes(env.file) = AscendingBytes(env.chunks)
        /\ FileSize(env.file) = Len(AscendingBytes(env.chunks))
        /\ FileSize(env.file) = Len(FileBytes(env.file))
        /\ env.file.name = env.fileName
        /\ env.file.type = env.mimeType
        /\ env.chunks = <<>> => FileSize(env.file) = 0 /\ FileBytes(env.file) = <<>>

\* three chunks given in the order 2, 0, 1, the one with index 0 empty, were
\* reassembled into the two bytes by ascending index
C18_Witness ==
    /\ env.called
    /\ Len(env.chunks) = 3
    /\ env.chunks[1] = [index |-> 2, data |-> <<2>>]
    /\ env.chunks[2] = [index |-> 0, data |-> <<>>]
    /\ env.chunks[3] = [index |-> 1, data |-> <<1>>]
    /\ FileBytes(env.file) = <<1, 2>>
    /\ FileSize(env.file) = 2
    /\ env.file.name = "test.bin"

(***************************************************************************)
(* The incremental SHA-256 of crypto.js: sha256Init, sha256Update and      *)
(* sha256Final fed a message slice by slice, next to the digest of the     *)
(* whole buffer.  The compression of a block is not computed: the chaining *)
(* value h stands for the sequence of the 64-byte blocks compressed so     *)
(* far, so two digests are equal exactly when the same blocks were         *)
(* compressed in the same order.                                           *)
(***************************************************************************)
\* bytes of a SHA-256 block
BLOCK_BYTES == 64

\* the buffered bytes below which the padding and the length fit the block
PAD_LIMIT == 56

\* the longest message hashed
MaxBytes == 130

\* the largest number of sha256Update calls that feed one message
MaxUpdates == 3

\* the message of n bytes: the byte at place p is p
Message(n) == [p \in 1..n |-> p % 256]

Zeros(n) == [p \in 1..n |-> 0]

\* the eight bytes of a bit count, most significant first
BitCount(totalBits) ==
    LET highBits == 0   \* Math.floor(totalBits / 0x100000000): the messages are short
        lowBits == totalBits
    IN  <<(highBits \div 16777216) % 256, (highBits \div 65536) % 256,
          (highBits \div 256) % 256, highBits % 256,
          (lowBits \div 16777216) % 256, (lowBits \div 65536) % 256,
          (lowBits \div 256) % 256, lowBits % 256>>

\* the blocks of a byte sequence whose length is a multiple of BLOCK_BYTES
BlocksOf(bytes) ==
    [k \in 1..(Len(bytes) \div BLOCK_BYTES) |->
        SubSeq(bytes, (k - 1) * BLOCK_BYTES + 1, k * BLOCK_BYTES)]

\* crypto.subtle.digest('SHA-256', buffer): the message, the byte 0x80, the fewest
\* zero bytes that bring the length to 56 modulo 64, and the bit count, block by block
Digest(bytes) ==
    LET n == Len(bytes)
        zeros == (2 * BLOCK_BYTES + PAD_LIMIT - 1 - (n % BLOCK_BYTES)) % BLOCK_BYTES
    IN  BlocksOf(bytes \o <<128>> \o Zeros(zeros) \o BitCount(8 * n))

calculateSHA256FromBuffer(buffer) == Digest(buffer)

sha256Init ==
    [h |-> <<>>, buffer |-> Zeros(BLOCK_BYTES), bufferLength |-> 0, totalLength |-> 0]

\* the chaining value after the block of data at offset
sha256ProcessBlock(h, data, offset) ==
    Append(h, SubSeq(data, offset + 1, offset + BLOCK_BYTES))

\* an update that forgets the bytes it had buffered when the data does not fill the
\* block
sha256UpdateDropsShort(state, data) ==
    LET dataLen == Len(data)
        buffered == state.bufferLength > 0
        needed == BLOCK_BYTES - state.bufferLength
        toCopy == IF buffered THEN Min(needed, dataLen) ELSE 0
        buffer1 == [p \in 1..BLOCK_BYTES |->
                       IF state.bufferLength < p /\ p <= state.bufferLength + toCopy
                       THEN data[p - state.bufferLength] ELSE state.buffer[p]]
        full == buffered /\ state.bufferLength + toCopy = BLOCK_BYTES
        h1 == IF full THEN sha256ProcessBlock(state.h, buffer1, 0) ELSE state.h
        blocks == (dataLen - toCopy) \div BLOCK_BYTES
        h2 == h1 \o [k \in 1..blocks |->
                        sha256ProcessBlock(<<>>, data, toCopy + (k - 1) * BLOCK_BYTES)[1]]
        offset == toCopy + blocks * BLOCK_BYTES
        remaining == dataLen - offset
    IN  [h |-> h2,
         buffer |-> [p \in 1..BLOCK_BYTES |->
                        IF p <= remaining THEN data[offset + p] ELSE buffer1[p]],
         bufferLength |-> remaining,
         totalLength |-> state.totalLength + dataLen]

sha256Update(state, data) ==
    LET dataLen == Len(data)
        buffered == state.bufferLength > 0
        \* the buffered bytes are completed to a block, as far as the data goes
        needed == BLOCK_BYTES - state.bufferLength
        toCopy == IF buffered THEN Min(needed, dataLen) ELSE 0
        buffer1 == [p \in 1..BLOCK_BYTES |->
                       IF state.bufferLength < p /\ p <= state.bufferLength + toCopy
                       THEN data[p - state.bufferLength] ELSE state.buffer[p]]
        full == buffered /\ state.bufferLength + toCopy = BLOCK_BYTES
        h1 == IF full THEN sha256ProcessBlock(state.h, buffer1, 0) ELSE state.h
        bufferLength1 == IF full THEN 0 ELSE state.bufferLength + toCopy
        \* while (offset + 64 <= dataLen): the complete blocks of the data
        blocks == (dataLen - toCopy) \div BLOCK_BYTES
        h2 == h1 \o [k \in 1..blocks |->
                        sha256ProcessBlock(<<>>, data, toCopy + (k - 1) * BLOCK_BYTES)[1]]
        offset == toCopy + blocks * BLOCK_BYTES
        \* the rest of the data is buffered
        remaining == dataLen - offset
    IN  [h |-> h2,
         buffer |-> [p \in 1..BLOCK_BYTES |->
                        IF p <= remaining THEN data[offset + p] ELSE buffer1[p]],
         bufferLength |-> IF remaining > 0 THEN remaining ELSE bufferLength1,
         totalLength |-> state.totalLength + dataLen]

\* a sha256Final that takes a buffer of PAD_LIMIT bytes to have room for the length
sha256FinalPadsAtLimit(state) ==
    LET totalBits == state.totalLength * 8
        padLength == IF state.bufferLength <= PAD_LIMIT
                     THEN PAD_LIMIT - state.bufferLength
                     ELSE BLOCK_BYTES + PAD_LIMIT - state.bufferLength
        padding == <<128>> \o Zeros(padLength - 1) \o BitCount(totalBits)
    IN  sha256Update(state, padding).h

\* the hex digest: the chaining value after the padding has been fed
sha256Final(state) ==
    LET totalBits == state.totalLength * 8
        padLength == IF state.bufferLength < PAD_LIMIT
                     THEN PAD_LIMIT - state.bufferLength
                     ELSE BLOCK_BYTES + PAD_LIMIT - state.bufferLength
        padding == <<128>> \o Zeros(padLength - 1) \o BitCount(totalBits)
    IN  sha256Update(state, padding).h

\* a hashing of a message of size bytes that has fed nothing yet
NewHashing(size) ==
    [dups |-> 0, faults |-> 0, events |-> 0, size |-> size, offset |-> 0,
     state |-> sha256Init, updates |-> 0, completed |-> FALSE, direct |-> FALSE,
     done |-> FALSE, digest |-> <<>>]

\* sha256Update(state, bytes offset..end of the message), for any end; the last
\* call allowed feeds all that is left
HashUpdate ==
    /\ ~env.done
    /\ env.offset < env.size
    /\ env.updates < MaxUpdates
    /\ \E end \in (env.offset + 1)..env.size :
          /\ env.updates = MaxUpdates - 1 => end = env.size
          /\ LET data == SubSeq(Message(env.size), env.offset + 1, end)
                 state == sha256Update(env.state, data)
             IN  env' = [env EXCEPT
                           !.offset = end,
                           !.state = state,
                           !.updates = @ + 1,
                           !.completed = @ \/ (/\ env.state.bufferLength > 0
                                               /\ Len(state.h) > Len(env.state.h)),
                           !.direct = @ \/ (/\ env.state.bufferLength = 0
                                            /\ Len(state.h) > Len(env.state.h))]
    /\ UNCHANGED <<sndVars, chanVars, rtcVars, page, strat, store, accept>>

\* return sha256Final(state), once the whole message has been fed
HashFinal ==
    /\ ~env.done
    /\ env.offset = env.size
    /\ env' = [env EXCEPT !.done = TRUE, !.digest = sha256Final(env.state)]
    /\ UNCHANGED <<sndVars, chanVars, rtcVars, page, strat, store, accept>>

InitHash ==
    /\ InitSender({0}, {"connecting"})
    /\ InitChannel(MaxChannel)
    /\ InitProviderOpen
    /\ page = NewPage(fileSize, FALSE)
    /\ strat = NoStrategy
    /\ store = NewStore("none")
    /\ accept = Accepted("memory")
    /\ \E size \in 0..MaxBytes : env = NewHashing(size)

NextHash ==
    \/ HashUpdate
    \/ HashFinal

SpecHash == InitHash /\ [][NextHash]_vars

\* C19: the digest of a message fed to sha256Update in slices, wherever the slices
\* end, followed by sha256Final, is the digest calculateSHA256FromBuffer gives for
\* the whole message
C19_SlicingIndependent ==
    env.done => env.digest = calculateSHA256FromBuffer(Message(env.size))

\* a message of 130 bytes was fed in three slices, one of which completed a block
\* from buffered bytes and one of which held a whole block, and the digest is that
\* of the three blocks of the padded message
C19_Witness ==
    /\ env.done
    /\ env.size = 130
    /\ env.updates = 3
    /\ env.completed
    /\ env.direct
    /\ Len(env.digest) = 3
    /\ env.digest = Digest(Message(130))

(***************************************************************************)
(* calculateSHA256 and its progress reports.  Sizes and offsets are in     *)
(* KiB; the digest itself is not part of this part of the model.           *)
(***************************************************************************)
\* SMALL_FILE_THRESHOLD, 100 * 1024 * 1024 bytes, in KiB
SMALL_FILE_THRESHOLD_KIB == 100 * 1024

\* CHUNK_SIZE of calculateSHA256Chunked, 16 * 1024 * 1024 bytes, in KiB
HASH_CHUNK_KIB == 16 * 1024

\* the sizes of the files hashed, in KiB: the empty file, 1 KiB, one slice, one slice
\* and 1 KiB, 40 MiB, 1 KiB below the threshold, the threshold, seven slices and
\* 1 KiB, and 1 GiB
HashSizes ==
    {0, 1, HASH_CHUNK_KIB, HASH_CHUNK_KIB + 1, 40 * 1024, SMALL_FILE_THRESHOLD_KIB - 1,
     SMALL_FILE_THRESHOLD_KIB, 7 * HASH_CHUNK_KIB + 1, 1024 * 1024}

\* Math.round((end / totalSize) * 100), halves rounded up
Progress(end, total) == (200 * end + total) \div (2 * total)

\* a call of calculateSHA256(file, onProgress) that has not run yet; reported is what
\* onProgress has been given: percent, the slice of the chunked path the report
\* follows (0 on the single-shot path) and whether the whole file had been consumed
NewCalculation(size, crypto) ==
    [dups |-> 0, faults |-> 0, events |-> 0, size |-> size, crypto |-> crypto,
     pc |-> "call", offset |-> 0, slices |-> 0, reported |-> <<>>, fellBack |-> FALSE]

Report(percent, slice, complete) ==
    [percent |-> percent, slice |-> slice, complete |-> complete]

\* calculateSHA256Chunked up to its first await, or to its return for an empty file
EnterChunked(e) ==
    [e EXCEPT !.offset = 0, !.pc = IF e.size > 0 THEN "slice" ELSE "done"]

HashStep(e) == env' = e /\ UNCHANGED <<sndVars, chanVars, rtcVars, page, strat, store, accept>>

\* calculateSHA256 is called and runs to its first await
HashCall ==
    /\ env.pc = "call"
    /\ HashStep(IF ~env.crypto THEN [env EXCEPT !.pc = "threw"]
                ELSE IF env.size < SMALL_FILE_THRESHOLD_KIB
                THEN [env EXCEPT !.pc = "arrayBuffer",
                                 !.reported = Append(@, Report(10, 0, FALSE))]
                ELSE EnterChunked(env))

\* file.arrayBuffer() settles: onProgress(50) and crypto.subtle.digest, or the catch
\* block and calculateSHA256Chunked
ArrayBufferSettled ==
    /\ env.pc = "arrayBuffer"
    /\ \E ok \in BOOLEAN :
          HashStep(IF ok
                   THEN [env EXCEPT !.pc = "digest",
                                    !.reported = Append(@, Report(50, 0, FALSE))]
                   ELSE EnterChunked([env EXCEPT !.fellBack = TRUE]))

\* crypto.subtle.digest settles: onProgress(100) and the return, or the catch block
\* and calculateSHA256Chunked
DigestSettled ==
    /\ env.pc = "digest"
    /\ \E ok \in BOOLEAN :
          HashStep(IF ok
                   THEN [env EXCEPT !.pc = "done",
                                    !.reported = Append(@, Report(100, 0, TRUE))]
                   ELSE EnterChunked([env EXCEPT !.fellBack = TRUE]))

\* blob.arrayBuffer() of the slice at offset settles: sha256Update, onProgress and
\* either the timeout before the next slice or sha256Final and the return; a
\* failed read throws
SliceSettled ==
    /\ env.pc = "slice"
    /\ \E ok \in BOOLEAN :
          LET end == Min(env.offset + HASH_CHUNK_KIB, env.size)
          IN  HashStep(IF ok
                       THEN [env EXCEPT
                               !.slices = @ + 1,
                               !.reported = Append(@, Report(Progress(end, env.size),
                                                             env.slices + 1,
                                                             end = env.size)),
                               !.offset = end,
                               !.pc = IF end < env.size THEN "timeout" ELSE "done"]
                       ELSE [env EXCEPT !.pc = "threw"])

\* the timeout of 0 ms ends and the loop reads the next slice
SliceTimeout ==
    /\ env.pc = "timeout"
    /\ HashStep([env EXCEPT !.pc = "slice"])

InitProgress ==
    /\ InitSender({0}, {"connecting"})
    /\ InitChannel(MaxChannel)
    /\ InitProviderOpen
    /\ page = NewPage(fileSize, FALSE)
    /\ strat = NoStrategy
    /\ store = NewStore("none")
    /\ accept = Accepted("memory")
    /\ \E size \in HashSizes, crypto \in BOOLEAN : env = NewCalculation(size, crypto)

NextProgress ==
    \/ HashCall
    \/ ArrayBufferSettled
    \/ DigestSettled
    \/ SliceSettled
    \/ SliceTimeout

SpecProgress == InitProgress /\ [][NextProgress]_vars

\* the percents given to onProgress never go down
ProgressMonotone ==
    \A j, k \in DOMAIN env.reported :
       j < k => env.reported[j].percent <= env.reported[k].percent

\* every slice consumed was followed by a call of onProgress
ProgressPerSlice ==
    \A s \in 1..env.slices : \E k \in DOMAIN env.reported : env.reported[k].slice = s

\* 100 is given only once the whole file has been consumed
HundredNotEarly ==
    \A k \in DOMAIN env.reported : env.reported[k].percent = 100 => env.reported[k].complete

\* 100 has been given when the digest is returned
HundredByReturn ==
    env.pc = "done" => \E k \in DOMAIN env.reported : env.reported[k].percent = 100

\* C20: on the single-shot path, the chunked path and the single-shot path that
\* falls back to the chunked one, the percents given to onProgress never go down,
\* onProgress is called after every slice, and 100 is given only once the last slice
\* has been consumed and has been given when the digest is returned
C20_Progress ==
    /\ ProgressMonotone
    /\ ProgressPerSlice
    /\ HundredNotEarly
    /\ HundredByReturn

(***************************************************************************)
(* The relay.  The signaling server keeps a table of sessions, a Map from  *)
(* the session code to the session, iterated in insertion order; its       *)
(* socket handlers read and change the table and emit events to sockets.   *)
(* A socket is named by its id; a code is the sequence of its characters,  *)
(* the decimal digits that toString prints.  The table, the clock, the     *)
(* sockets and what the last handler emitted are fields of env.            *)
(***************************************************************************)
\* sessions older than this are swept, in milliseconds
SESSION_TIMEOUT == 30 * 60 * 1000

\* Math.floor(CODE_BASE + Math.random() * CODE_SPAN)
CODE_BASE == 100000

CODE_SPAN == 900000

\* sessions live at the same time
MaxSessions == 2

\* advances of the clock in one behaviour
MaxTicks == 1

\* the sockets that connect in one behaviour
MaxSockets == 2

NoSocket == 0

NoFileMeta == 0

Sockets == 1..MaxSockets

\* the metadata a sender announces
FileMetas == {1, 2}

\* the values of Math.random(), as <<numerator, denominator>>, in [0, 1)
RandomDraws == {<<0, 1>>, <<999, 1000>>}

\* the draws generateCode makes until it returns
DrawSeqs == {<<a>> : a \in RandomDraws} \cup {<<a, b>> : a, b \in RandomDraws}

\* the amounts by which Date.now() advances between two events
ClockSteps == {SESSION_TIMEOUT, SESSION_TIMEOUT + 1}

RECURSIVE Pow10(_)
Pow10(n) == IF n = 0 THEN 1 ELSE 10 * Pow10(n - 1)

\* Number.prototype.toString: the decimal digits, most significant first
toString(n) == [i \in 1..Digits(n) |-> (n \div Pow10(Digits(n) - i)) % 10]

\* Math.floor(100000 + Math.random() * 900000).toString()
CodeOf(draw) == toString((CODE_BASE * draw[2] + draw[1] * CODE_SPAN) \div draw[2])

\* the codes a client may send: those the relay can hand out, and others
ClientCodes == {CodeOf(draw) : draw \in RandomDraws} \cup {<<9, 9, 9, 9, 9, 9>>}

\* sessions.has(code)
has(sessions, code) == \E k \in DOMAIN sessions : sessions[k].code = code

\* the do-while loop without its condition: the first draw is the code
generateCodeFirstDraw(sessions, draws) == CodeOf(draws[1])

\* generateCode: draw until the code is not that of a session in the table
generateCode(sessions, draws) ==
    CodeOf(draws[CHOOSE k \in DOMAIN draws :
                    /\ ~has(sessions, CodeOf(draws[k]))
                    /\ \A j \in 1..(k - 1) : has(sessions, CodeOf(draws[j]))])

\* the loop of generateCode ends within the given draws
Generates(sessions, draws) ==
    /\ ~has(sessions, CodeOf(draws[Len(draws)]))
    /\ \A j \in 1..(Len(draws) - 1) : has(sessions, CodeOf(draws[j]))

NewSession(code, now) ==
    [code |-> code, senderSocket |-> NoSocket, receiverSocket |-> NoSocket,
     fileMeta |-> NoFileMeta, createdAt |-> now]

\* Map.prototype.set: a key in the table keeps its place, a new key goes last
MapSet(sessions, code, session) ==
    IF has(sessions, code)
    THEN [k \in DOMAIN sessions |-> IF sessions[k].code = code THEN session ELSE sessions[k]]
    ELSE Append(sessions, session)

\* createSession: the table with the new session, and the code returned
createSession(sessions, draws, now) ==
    LET code == generateCode(sessions, draws)
    IN  [sessions |-> MapSet(sessions, code, NewSession(code, now)), code |-> code]

\* the place of the session of the code in the table, 0 for undefined
getSession(sessions, code) ==
    IF has(sessions, code) THEN CHOOSE k \in DOMAIN sessions : sessions[k].code = code ELSE 0

setSenderSocket(sessions, code, socket) ==
    [k \in DOMAIN sessions |->
        IF sessions[k].code = code THEN [sessions[k] EXCEPT !.senderSocket = socket]
        ELSE sessions[k]]

setReceiverSocket(sessions, code, socket) ==
    [k \in DOMAIN sessions |->
        IF sessions[k].code = code THEN [sessions[k] EXCEPT !.receiverSocket = socket]
        ELSE sessions[k]]

setFileMeta(sessions, code, fileMeta) ==
    [k \in DOMAIN sessions |->
        IF sessions[k].code = code THEN [sessions[k] EXCEPT !.fileMeta = fileMeta]
        ELSE sessions[k]]

deleteSession(sessions, code) == SelectSeq(sessions, LAMBDA s : s.code # code)

\* the socket is in a slot of the session
Holds(session, socketId) ==
    session.senderSocket = socketId \/ session.receiverSocket = socketId

\* findSessionBySocket: the place of the first session of the table that has the
\* socket in a slot, 0 for null
findSessionBySocket(sessions, socketId) ==
    IF \E k \in DOMAIN sessions : Holds(sessions[k], socketId)
    THEN CHOOSE k \in DOMAIN sessions :
            /\ Holds(sessions[k], socketId)
            /\ \A j \in 1..(k - 1) : ~Holds(sessions[j], socketId)
    ELSE 0

\* the role findSessionBySocket reports
RoleOf(session, socketId) ==
    IF session.senderSocket = socketId THEN "sender" ELSE "receiver"

\* the socket of the other party
OtherSocket(session, socketId) ==
    IF RoleOf(session, socketId) = "sender" THEN session.receiverSocket
    ELSE session.senderSocket

\* cleanupExpiredSessions
cleanupExpiredSessions(sessions, now) ==
    SelectSeq(sessions, LAMBDA s : ~(now - s.createdAt > SESSION_TIMEOUT))

\* socket.emit(event, data)
Emit(to, event, data) == [to |-> to, event |-> event, data |-> data]

NoArgs == [args |-> 0]

Joined(code, role) == [code |-> code, role |-> role]

ErrorMessage(message) == [message |-> message]

\* what a handler leaves: the table and the events emitted, in order
Handled(sessions, emitted) == [sessions |-> sessions, emitted |-> emitted]

\* to the other party if there is one
EmitIf(to, event, data) == IF to # NoSocket THEN <<Emit(to, event, data)>> ELSE <<>>

handleSenderJoin(sessions, socket, code) ==
    IF has(sessions, code)
    THEN Handled(setSenderSocket(sessions, code, socket),
                 <<Emit(socket, "session-joined", Joined(code, "sender"))>>)
    ELSE Handled(sessions, <<Emit(socket, "error", ErrorMessage("Session not found"))>>)

\* handleReceiverJoin without the check of the sender's slot
handleReceiverJoinNoSender(sessions, socket, code) ==
    LET k == getSession(sessions, code)
    IN  IF k = 0
        THEN Handled(sessions, <<Emit(socket, "error", ErrorMessage("Session not found"))>>)
        ELSE Handled(setReceiverSocket(sessions, code, socket),
                     <<Emit(socket, "session-joined", Joined(code, "receiver"))>>
                     \o EmitIf(sessions[k].senderSocket, "receiver-connected", NoArgs)
                     \o (IF sessions[k].fileMeta # NoFileMeta
                         THEN <<Emit(socket, "file-meta", [meta |-> sessions[k].fileMeta])>>
                         ELSE <<>>))

handleReceiverJoin(sessions, socket, code) ==
    LET k == getSession(sessions, code)
    IN  IF k = 0
        THEN Handled(sessions, <<Emit(socket, "error", ErrorMessage("Session not found"))>>)
        ELSE IF sessions[k].senderSocket = NoSocket
        THEN Handled(sessions, <<Emit(socket, "error", ErrorMessage("Sender not connected"))>>)
        ELSE Handled(setReceiverSocket(sessions, code, socket),
                     <<Emit(socket, "session-joined", Joined(code, "receiver")),
                       Emit(sessions[k].senderSocket, "receiver-connected", NoArgs)>>
                     \o (IF sessions[k].fileMeta # NoFileMeta
                         THEN <<Emit(socket, "file-meta", [meta |-> sessions[k].fileMeta])>>
                         ELSE <<>>))

\* handleFileMeta without the check of the role
handleFileMetaAnyRole(sessions, socket, data) ==
    LET k == findSessionBySocket(sessions, socket)
    IN  IF k # 0
        THEN Handled(setFileMeta(sessions, sessions[k].code, data),
                     EmitIf(sessions[k].receiverSocket, "file-meta", [meta |-> data]))
        ELSE Handled(sessions, <<>>)

handleFileMeta(sessions, socket, data) ==
    LET k == findSessionBySocket(sessions, socket)
    IN  IF k # 0 /\ RoleOf(sessions[k], socket) = "sender"
        THEN Handled(setFileMeta(sessions, sessions[k].code, data),
                     EmitIf(sessions[k].receiverSocket, "file-meta", [meta |-> data]))
        ELSE Handled(sessions, <<>>)

handleOffer(sessions, socket, data) ==
    LET k == findSessionBySocket(sessions, socket)
    IN  IF k # 0
        THEN Handled(sessions, EmitIf(sessions[k].receiverSocket, "offer", data))
        ELSE Handled(sessions, <<>>)

handleAnswer(sessions, socket, data) ==
    LET k == findSessionBySocket(sessions, socket)
    IN  IF k # 0
        THEN Handled(sessions, EmitIf(sessions[k].senderSocket, "answer", data))
        ELSE Handled(sessions, <<>>)

handleIceCandidate(sessions, socket, data) ==
    LET k == findSessionBySocket(sessions, socket)
    IN  IF k # 0
        THEN Handled(sessions, EmitIf(OtherSocket(sessions[k], socket), "ice-candidate", data))
        ELSE Handled(sessions, <<>>)

handleAcceptTransfer(sessions, socket) ==
    LET k == findSessionBySocket(sessions, socket)
    IN  IF k # 0 /\ RoleOf(sessions[k], socket) = "receiver"
             /\ sessions[k].senderSocket # NoSocket
        THEN Handled(sessions, <<Emit(sessions[k].senderSocket, "transfer-accepted", NoArgs)>>)
        ELSE Handled(sessions, <<>>)

handleRejectTransfer(sessions, socket) ==
    LET k == findSessionBySocket(sessions, socket)
    IN  IF k # 0 /\ RoleOf(sessions[k], socket) = "receiver"
             /\ sessions[k].senderSocket # NoSocket
        THEN Handled(deleteSession(sessions, sessions[k].code),
                     <<Emit(sessions[k].senderSocket, "transfer-rejected", NoArgs)>>)
        ELSE Handled(sessions, <<>>)

\* handleTransferComplete of the relay
relayTransferComplete(sessions, socket, data) ==
    LET k == findSessionBySocket(sessions, socket)
    IN  IF k # 0
        THEN Handled(deleteSession(sessions, sessions[k].code),
                     EmitIf(OtherSocket(sessions[k], socket), "transfer-complete", data))
        ELSE Handled(sessions, <<>>)

handleTransferError(sessions, socket, data) ==
    LET k == findSessionBySocket(sessions, socket)
    IN  IF k # 0
        THEN Handled(sessions, EmitIf(OtherSocket(sessions[k], socket), "transfer-error", data))
        ELSE Handled(sessions, <<>>)

\* handleDisconnect that removes the session whatever the role
handleDisconnectAnyRole(sessions, socket) ==
    LET k == findSessionBySocket(sessions, socket)
    IN  IF k # 0
        THEN Handled(deleteSession(sessions, sessions[k].code),
                     EmitIf(OtherSocket(sessions[k], socket), "peer-disconnected",
                            [role |-> RoleOf(sessions[k], socket)]))
        ELSE Handled(sessions, <<>>)

handleDisconnect(sessions, socket) ==
    LET k == findSessionBySocket(sessions, socket)
    IN  IF k # 0
        THEN Handled(IF RoleOf(sessions[k], socket) = "sender"
                     THEN deleteSession(sessions, sessions[k].code) ELSE sessions,
                     EmitIf(OtherSocket(sessions[k], socket), "peer-disconnected",
                            [role |-> RoleOf(sessions[k], socket)]))
        ELSE Handled(sessions, <<>>)

\* the event the relay handled last, and what it emitted
Last(handler, socket, code, data, emitted) ==
    [handler |-> handler, socket |-> socket, code |-> code, data |-> data,
     emitted |-> emitted]

NoCode == <<>>

NewRelay ==
    [dups |-> 0, faults |-> 0, events |-> 0, sessions |-> <<>>, now |-> 0, ticks |-> 0,
     sockets |-> [s \in Sockets |-> "connected"], last |-> Last("listen", NoSocket, NoCode, NoArgs, <<>>)]

\* a handler of an event of a connected socket has run
Handle(handler, socket, code, data, result) ==
    /\ env.sockets[socket] = "connected"
    /\ env' = [env EXCEPT !.sessions = result.sessions,
                          !.last = Last(handler, socket, code, data, result.emitted)]
    /\ UNCHANGED <<sndVars, chanVars, rtcVars, page, strat, store, accept>>

\* POST /api/create-session
CreateSession ==
    \E draws \in DrawSeqs :
       /\ Len(env.sessions) < MaxSessions
       /\ Generates(env.sessions, draws)
       /\ LET created == createSession(env.sessions, draws, env.now)
          IN  env' = [env EXCEPT !.sessions = created.sessions,
                                 !.last = Last("createSession", NoSocket, created.code, NoArgs, <<>>)]
       /\ UNCHANGED <<sndVars, chanVars, rtcVars, page, strat, store, accept>>

SenderJoin ==
    \E socket \in Sockets, code \in ClientCodes :
       Handle("sender-join", socket, code, NoArgs,
              handleSenderJoin(env.sessions, socket, code))

ReceiverJoin ==
    \E socket \in Sockets, code \in ClientCodes :
       Handle("receiver-join", socket, code, NoArgs,
              handleReceiverJoin(env.sessions, socket, code))

FileMeta ==
    \E socket \in Sockets, data \in FileMetas :
       Handle("file-meta", socket, NoCode, [meta |-> data],
              handleFileMeta(env.sessions, socket, data))

Offer ==
    \E socket \in Sockets :
       Handle("offer", socket, NoCode, NoArgs, handleOffer(env.sessions, socket, NoArgs))

Answer ==
    \E socket \in Sockets :
       Handle("answer", socket, NoCode, NoArgs, handleAnswer(env.sessions, socket, NoArgs))

IceCandidate ==
    \E socket \in Sockets :
       Handle("ice-candidate", socket, NoCode, NoArgs,
              handleIceCandidate(env.sessions, socket, NoArgs))

AcceptTransfer ==
    \E socket \in Sockets :
       Handle("accept-transfer", socket, NoCode, NoArgs,
              handleAcceptTransfer(env.sessions, socket))

RejectTransfer ==
    \E socket \in Sockets :
       Handle("reject-transfer", socket, NoCode, NoArgs,
              handleRejectTransfer(env.sessions, socket))

TransferComplete ==
    \E socket \in Sockets, verified \in BOOLEAN :
       Handle("transfer-complete", socket, NoCode, [verified |-> verified],
              relayTransferComplete(env.sessions, socket, [verified |-> verified]))

TransferError ==
    \E socket \in Sockets :
       Handle("transfer-error", socket, NoCode, NoArgs,
              handleTransferError(env.sessions, socket, NoArgs))

\* the socket is gone after its disconnect event
Disconnect ==
    \E socket \in Sockets :
       /\ env.sockets[socket] = "connected"
       /\ LET result == handleDisconnect(env.sessions, socket)
          IN  env' = [env EXCEPT !.sessions = result.sessions,
                                 !.sockets[socket] = "disconnected",
                                 !.last = Last("disconnect", socket, NoCode, NoArgs, result.emitted)]
       /\ UNCHANGED <<sndVars, chanVars, rtcVars, page, strat, store, accept>>

\* the interval that calls cleanupExpiredSessions
Sweep ==
    /\ env' = [env EXCEPT !.sessions = cleanupExpiredSessions(env.sessions, env.now),
                          !.last = Last("sweep", NoSocket, NoCode, NoArgs, <<>>)]
    /\ UNCHANGED <<sndVars, chanVars, rtcVars, page, strat, store, accept>>

\* time passes
Tick ==
    \E step \in ClockSteps :
       /\ env.ticks < MaxTicks
       /\ env' = [env EXCEPT !.now = env.now + step, !.ticks = env.ticks + 1,
                             !.last = Last("tick", NoSocket, NoCode, NoArgs, <<>>)]
       /\ UNCHANGED <<sndVars, chanVars, rtcVars, page, strat, store, accept>>

InitRelay ==
    /\ InitSender({0}, {"connecting"})
    /\ InitChannel(MaxChannel)
    /\ InitProviderOpen
    /\ page = NewPage(fileSize, FALSE)
    /\ strat = NoStrategy
    /\ store = NewStore("none")
    /\ accept = Accepted("memory")
    /\ env = NewRelay

NextRelay ==
    \/ CreateSession
    \/ SenderJoin
    \/ ReceiverJoin
    \/ FileMeta
    \/ Offer
    \/ Answer
    \/ IceCandidate
    \/ AcceptTransfer
    \/ RejectTransfer
    \/ TransferComplete
    \/ TransferError
    \/ Disconnect
    \/ Sweep
    \/ Tick

SpecRelay == InitRelay /\ [][NextRelay]_vars

\* the step is the relay handling the given event
Handles(handler) == env' # env /\ env'.last.handler = handler

\* C21: a receiver-join puts the joining socket in the receiver slot of the session,
\* emits session-joined {code, role: 'receiver'} to it and receiver-connected to
\* the sender's socket exactly when the table has a session of the code whose
\* sender slot is set; otherwise it emits only error 'Session not found', or
\* 'Sender not connected', to the joiner and leaves the table as it was; a
\* sender-join for a code the table does not have emits error 'Session not found'
C21_Step ==
    LET socket == env'.last.socket
        code == env'.last.code
        emitted == env'.last.emitted
        k == getSession(env.sessions, code)
    IN  /\ Handles("receiver-join") =>
              IF k # 0 /\ env.sessions[k].senderSocket # NoSocket
              THEN /\ env'.sessions = [env.sessions EXCEPT ![k].receiverSocket = socket]
                   /\ Len(emitted) >= 2
                   /\ emitted[1] = Emit(socket, "session-joined", Joined(code, "receiver"))
                   /\ emitted[2] = Emit(env.sessions[k].senderSocket, "receiver-connected", NoArgs)
                   /\ \A j \in DOMAIN emitted : emitted[j].event # "error"
              ELSE /\ env'.sessions = env.sessions
                   /\ emitted = <<Emit(socket, "error",
                                       ErrorMessage(IF k = 0 THEN "Session not found"
                                                    ELSE "Sender not connected"))>>
        /\ (Handles("sender-join") /\ k = 0) =>
              /\ env'.sessions = env.sessions
              /\ emitted = <<Emit(socket, "error", ErrorMessage("Session not found"))>>

C21_ReceiverJoin == [][C21_Step]_vars

\* a receiver has joined a session whose sender had joined
C21_Witness ==
    /\ env.last.handler = "receiver-join"
    /\ env.last.emitted[1].event = "session-joined"
    /\ \E k \in DOMAIN env.sessions :
          /\ env.sessions[k].code = env.last.code
          /\ env.sessions[k].receiverSocket = env.last.socket
          /\ env.sessions[k].senderSocket \notin {NoSocket, env.last.socket}

\* the events of the sequence emitted to the socket
EmittedTo(emitted, socket) == SelectSeq(emitted, LAMBDA e : e.to = socket)

\* C22: the fileMeta of a session changes only when file-meta is handled from the
\* socket in the sender slot of that session, and then to the data sent, which is
\* also emitted to the receiver's socket if the receiver slot is set; a
\* receiver-join that succeeds on a session with cached metadata emits to the
\* joiner session-joined and right after it file-meta with the cached metadata,
\* the one stored last (between the two only receiver-connected is emitted, to the
\* sender's socket); without cached metadata no file-meta is emitted
C22_Step ==
    LET socket == env'.last.socket
        emitted == env'.last.emitted
    IN  /\ \A j \in DOMAIN env'.sessions :
              LET k == getSession(env.sessions, env'.sessions[j].code)
                  before == IF k = 0 THEN NoFileMeta ELSE env.sessions[k].fileMeta
              IN  env'.sessions[j].fileMeta # before =>
                     /\ Handles("file-meta")
                     /\ k # 0
                     /\ env.sessions[k].senderSocket = socket
                     /\ env'.sessions[j].fileMeta = env'.last.data.meta
                     /\ emitted = EmitIf(env.sessions[k].receiverSocket, "file-meta",
                                         env'.last.data)
        /\ Handles("file-meta") =>
              \A j \in DOMAIN emitted :
                 /\ emitted[j] = Emit(emitted[j].to, "file-meta", env'.last.data)
                 /\ \E k \in DOMAIN env.sessions :
                       /\ env.sessions[k].senderSocket = socket
                       /\ env.sessions[k].receiverSocket = emitted[j].to
                       /\ env'.sessions[k].fileMeta = env'.last.data.meta
        /\ Handles("receiver-join") =>
              LET k == getSession(env.sessions, env'.last.code)
                  joined == Len(emitted) > 0 /\ emitted[1].event = "session-joined"
                  others == SelectSeq(emitted, LAMBDA e : e.event # "receiver-connected")
              IN  /\ (joined /\ env.sessions[k].fileMeta # NoFileMeta) =>
                         /\ others = <<Emit(socket, "session-joined",
                                            Joined(env'.last.code, "receiver")),
                                       Emit(socket, "file-meta",
                                            [meta |-> env.sessions[k].fileMeta])>>
                         /\ Len(emitted) = 3
                         /\ emitted[2].to = env.sessions[k].senderSocket
                  /\ (~joined \/ env.sessions[k].fileMeta = NoFileMeta) =>
                         \A j \in DOMAIN emitted : emitted[j].event # "file-meta"

C22_FileMetaCached == [][C22_Step]_vars

\* a receiver has joined a session after its sender had announced metadata, and
\* has been sent the metadata
C22_Witness ==
    /\ env.last.handler = "receiver-join"
    /\ Len(env.last.emitted) = 3
    /\ env.last.emitted[3] = Emit(env.last.socket, "file-meta", [meta |-> 2])
    /\ \E k \in DOMAIN env.sessions :
          /\ env.sessions[k].code = env.last.code
          /\ env.sessions[k].fileMeta = 2
          /\ env.sessions[k].senderSocket # env.last.socket

\* a string of six decimal digits
SixDigits(code) == Len(code) = 6 /\ \A i \in DOMAIN code : code[i] \in 0..9

\* C23: the code createSession returns is a string of six decimal digits that is
\* not the code of any session live at that moment, the new session is added to
\* the table with empty slots and the sessions live before are untouched; no two
\* live sessions have the same code
C23_Step ==
    /\ Handles("createSession") =>
          /\ SixDigits(env'.last.code)
          /\ ~has(env.sessions, env'.last.code)
          /\ env'.sessions = Append(env.sessions, NewSession(env'.last.code, env.now))
    /\ \A j, k \in DOMAIN env'.sessions :
          /\ SixDigits(env'.sessions[j].code)
          /\ env'.sessions[j].code = env'.sessions[k].code => j = k

C23_SessionCodes == [][C23_Step]_vars

\* a session has been created while another one was live
C23_Witness ==
    /\ env.last.handler = "createSession"
    /\ Len(env.sessions) = MaxSessions
    /\ env.sessions[Len(env.sessions)].code = env.last.code
    /\ env.last.code = <<9, 9, 9, 1, 0, 0>>

\* the step is one of the four events that end the session: transfer-complete
\* from one of its parties, reject-transfer from its receiver (a socket that is
\* not also its sender), the disconnect of its sender's socket, or a sweep that
\* finds it older than SESSION_TIMEOUT
Ends(session) ==
    \/ Handles("transfer-complete") /\ Holds(session, env'.last.socket)
    \/ /\ Handles("reject-transfer")
       /\ session.receiverSocket = env'.last.socket
       /\ session.senderSocket # env'.last.socket
    \/ Handles("disconnect") /\ session.senderSocket = env'.last.socket
    \/ Handles("sweep") /\ env.now - session.createdAt > SESSION_TIMEOUT

\* the session is in the table before the step and not after it
Removed(session) == ~has(env'.sessions, session.code)

\* a session is removed only in a step that ends it
C24_OnlyWhen ==
    \A k \in DOMAIN env.sessions : Removed(env.sessions[k]) => Ends(env.sessions[k])

\* a step that ends a session removes it
C24_When ==
    \A k \in DOMAIN env.sessions : Ends(env.sessions[k]) => Removed(env.sessions[k])

\* the socket of the step is in no session that is before this one in the table
FirstOfSocket(k) ==
    \A j \in 1..(k - 1) : ~Holds(env.sessions[j], env'.last.socket)

\* a step that ends a session removes it if the socket that sent the event is in
\* a slot of no earlier session
C24_WhenFirst ==
    \A k \in DOMAIN env.sessions :
       (Ends(env.sessions[k]) /\ FirstOfSocket(k)) => Removed(env.sessions[k])

C24_Parts == [][C24_OnlyWhen /\ C24_WhenFirst]_vars

\* C24: a live session is removed from the table when, and only when,
\* transfer-complete is handled from one of its parties, its receiver sends
\* reject-transfer, its sender's socket disconnects, or the sweep finds it older
\* than SESSION_TIMEOUT; in particular the disconnect of the receiver alone
\* leaves it in the table
C24_Lifecycle == [][C24_OnlyWhen /\ C24_When]_vars

\* the socket in the sender slot of a live session has disconnected
C24_DeadSender ==
    \E k \in DOMAIN env.sessions :
       /\ env.sessions[k].senderSocket # NoSocket
       /\ env.sockets[env.sessions[k].senderSocket] = "disconnected"

(***************************************************************************)
(* The database backend under writes that are not awaited.                 *)
(***************************************************************************)
\* the chunk of the index is in the buffer of the strategy
Buffered(index) == \E k \in DOMAIN strat.buffer : strat.buffer[k].index = index

\* the chunk of the index is in the object store under the session id
Durable(index) ==
    \E r \in store.idbStore : r.sessionId = strat.sessionId /\ r.index = index

\* the chunk of the index is among the puts of a flush transaction of the session
\* that has not completed yet
InFlight(index) ==
    \E k \in DOMAIN store.idbTx :
       /\ store.idbTx[k].kind = "flush"
       /\ store.idbTx[k].sessionId = strat.sessionId
       /\ \E j \in DOMAIN store.idbTx[k].puts : store.idbTx[k].puts[j].index = index

\* C25: with the indexeddb backend and a handler that does not wait for one
\* writeChunk before the next message, every chunk passed to writeChunk is in the
\* buffer, or in the object store under the session id, or on its way there in a
\* flush transaction, at every moment of the transfer, and the File finalize
\* returns has as many chunks as were written
C25_NothingDiscarded ==
    strat.type = "indexeddb" =>
        /\ \A index \in page.receivedChunksSetRef :
              Buffered(index) \/ Durable(index) \/ InFlight(index)
        /\ page.hasReceivedFile =>
              Len(page.receivedFile.content) = Cardinality(page.receivedChunksSetRef)

(***************************************************************************)
(* The pairing of chunk headers and binary payloads, over the messages the *)
(* handler has been given.                                                 *)
(***************************************************************************)
\* the place in handled of the last binary payload before place k, 0 for none
PreviousBinary(k) ==
    LET before == {j \in 1..(k - 1) : handled[j].type = "binary"}
    IN  IF before = {} THEN 0 ELSE CHOOSE j \in before : \A i \in before : i <= j

\* the index of the most recent chunk header between the previous binary payload
\* and place k, NoIndex if there is none
HeaderFor(k) ==
    LET headers == {j \in (PreviousBinary(k) + 1)..(k - 1) : handled[j].type = "chunk"}
    IN  IF headers = {} THEN NoIndex
        ELSE handled[CHOOSE j \in headers : \A i \in headers : i <= j].index

\* the binary payloads handled that had a header to go with
Paired == {k \in DOMAIN handled : handled[k].type = "binary" /\ HeaderFor(k) # NoIndex}

\* the bytes of the paired payloads among the first n messages handled
PairedBytes(n) ==
    LET f[k \in 0..n] ==
            IF k = 0 THEN 0
            ELSE f[k - 1] + (IF k \in Paired THEN handled[k].size ELSE 0)
    IN  f[n]

\* C26: every (index, bytes) pair in storage is a binary payload that was handled,
\* under the index of the most recent chunk header handled since the binary
\* payload before it; no more pairs are stored than payloads had such a header, so
\* no header serves two payloads; a payload without one is neither stored nor
\* counted in receivedBytesRef
C26_HeaderPayloadPairing ==
    /\ \A e \in StoredPairs :
          \E k \in Paired :
             /\ e.data = ChunkData(handled[k].bytes, handled[k].size)
             /\ e.index = HeaderFor(k)
    /\ Cardinality(StoredPairs) <= Cardinality(Paired)
    /\ \A j, k \in DOMAIN AppliedSeq : AppliedSeq[j].index = AppliedSeq[k].index => j = k
    /\ page.receivedBytesRef <= PairedBytes(Len(handled))

\* a payload was handled after two headers and stored under the second, and a
\* payload that had no header was dropped
C26_Witness ==
    /\ \E k \in Paired :
          /\ k > 2
          /\ handled[k - 1].type = "chunk" /\ handled[k - 2].type = "chunk"
          /\ [index |-> handled[k - 1].index,
              data |-> ChunkData(handled[k].bytes, handled[k].size)] \in StoredPairs
    /\ \E k \in DOMAIN handled : handled[k].type = "binary" /\ k \notin Paired
    /\ page.receivedBytesRef > 0

(***************************************************************************)
(* The verdict.  calculateSHA256 may reject: crypto.subtle is missing on a *)
(* page that is not served over HTTPS, and the chunked path rejects when a *)
(* slice of the file cannot be read.                                       *)
(***************************************************************************)
\* the outer catch block of handleTransferComplete
CatchVerifyError(R) == [R EXCEPT !.page.status = "error", !.page.htcPc = "failed"]

\* calculateSHA256(receivedFile) rejects
HashFail ==
    /\ Fault
    /\ page.htcPc = "hashing"
    /\ RxOnly(CatchVerifyError(RxState))

NextVerdict ==
    \/ SendFileStart
    \/ SendChunk
    \/ Drain
    \/ Deliver
    \/ MountTransferPage
    \/ TxCompleteAct
    \/ TxErrorAct
    \/ FsWriteDone
    \/ FsWriteFail
    \/ FsCloseDone
    \/ FsCloseFail
    \/ HashDone
    \/ HashFail
    \/ SenderHandleComplete

\* the browser settles what is pending: a transaction, a stream write, a stream
\* close and a digest come to an end, one way or the other
Settles ==
    /\ WF_vars(TxCompleteAct)
    /\ WF_vars(FsWriteDone)
    /\ WF_vars(FsCloseDone)
    /\ WF_vars(HashDone)

SpecVerdict == InitFault /\ [][NextVerdict]_vars /\ Settles

\* the receiver has run handleTransferComplete past its guard
CompleteProcessed == page.htcPc # "idle"

\* the receiver has emitted transfer-complete {verified}
VerdictEmitted == page.emitted # <<>>

\* C27: once the receiver has processed 'complete' it eventually emits
\* transfer-complete {verified}, whatever fails on the way
C27_VerdictReported == CompleteProcessed ~> VerdictEmitted

\* handleTransferComplete has ended in its catch block without a verdict
C27_NoVerdict == page.htcPc = "failed" /\ page.status = "error" /\ page.emitted = <<>>

(***************************************************************************)
(* The verdict on the result pages.  The relay forwards file-meta as the   *)
(* sender's client sent it, with or without a hash.                        *)
(***************************************************************************)
\* ResultPage: isSuccess = hashVerified !== false
isSuccess(hashVerified) == hashVerified # "false"

\* the receiver as InitReceiver leaves it, with the file-meta of a client that
\* may have sent no hash
InitVerify ==
    /\ InitSender(SmallSizes, {"open"})
    /\ InitChannel(MaxChannel)
    /\ InitProviderOpen
    /\ \E hasHash \in BOOLEAN :
          page = [NewPage(fileSize, TRUE) EXCEPT !.fileMeta.hasHash = hasHash]
    /\ \E t \in StrategyTypes : /\ strat = NewStrategy(t, 1, SessionId(1, 0))
                               /\ store = NewStore(t)
                               /\ accept = Accepted(t)
    /\ env = NewEnv

SpecVerify == InitVerify /\ [][Next]_vars

\* C28: the verdict emitted is a boolean; it is true only if the filesystem path
\* was taken or the digest of the received file equals the sender's digest; a
\* result page, the receiver's or the sender's, presents success only for the
\* verdict true, never for a verdict that is null or undefined
C28_VerdictFidelity ==
    /\ \A k \in DOMAIN page.emitted : page.emitted[k] \in {"true", "false"}
    /\ page.hashVerified = "true" =>
          \/ strat.type = "filesystem"
          \/ /\ page.fileMeta.hasHash
             /\ calculateSHA256(page.receivedFile) = page.fileMeta.hash
    /\ (page.route = "result" /\ isSuccess(page.hashVerified)) => page.hashVerified = "true"
    /\ (sndPage = "result" /\ isSuccess(sndHashVerified)) => sndHashVerified = "true"

\* both result pages present success for a transfer whose file-meta had no hash
C28_UnverifiedSuccess ==
    /\ ~page.fileMeta.hasHash
    /\ page.route = "result" /\ page.hashVerified = "null" /\ isSuccess(page.hashVerified)
    /\ sndPage = "result" /\ sndHashVerified = "null" /\ isSuccess(sndHashVerified)

(***************************************************************************)
(* A storage strategy under a caller that does not wait between its calls: *)
(* writeChunk for the chunks of the file in any order of their indices,    *)
(* finalize and cleanup at any point.  The TransferPage is that caller;    *)
(* env.calls lists the indices in call order, env.before is the number of  *)
(* them made before finalize was called, env.returned holds bytesWritten   *)
(* of the object finalize returned, once it has returned.                  *)
(***************************************************************************)
\* the chunk indices of the file
StoreIndices == 0..(TotalChunks(fileSize) - 1)

\* the receiver's task ended in state R and left the harness fields as e
StoreTask(R, e) ==
    /\ RxOnly(R)
    /\ env' = e
    /\ UNCHANGED accept

\* strategy.writeChunk(idx, chunk), not awaited before the next call
StoreWriteChunk ==
    \E idx \in StoreIndices \ Range(env.calls) :
        StoreTask(RunMicro(WriteChunk(RxState, idx, ChunkData(idx, SliceSize(fileSize, idx)))),
                  [env EXCEPT !.calls = Append(@, idx)])

\* strategy.finalize()
StoreFinalize ==
    /\ ~env.finalizeCalled
    /\ strat.cleanupPc = "idle"
    /\ StoreTask(RunMicro(Finalize(RxState)),
                 [env EXCEPT !.finalizeCalled = TRUE, !.before = Len(env.calls)])

\* strategy.cleanup()
StoreCleanup ==
    /\ ~env.cleanupCalled
    /\ StoreTask(RunMicro(Cleanup(RxState)), [env EXCEPT !.cleanupCalled = TRUE])

\* writable.close() resolves; when finalize waited for it, finalize returns
StoreCloseDone ==
    /\ store.fsStreamState = "closing"
    /\ LET R == FsCloseResolved(RxState)
       IN StoreTask(RunMicro(R),
                    [env EXCEPT !.returned = IF strat.finalizePc = "closing"
                                             THEN <<R.strat.bytesWritten>> ELSE @])

InitStore ==
    /\ InitSender({SmallChunks * CHUNK_SIZE}, {"open"})
    /\ InitChannel(MaxChannel)
    /\ InitProviderOpen
    /\ page = NewPage(fileSize, TRUE)
    /\ \E t \in StrategyTypes : /\ strat = NewStrategy(t, 1, SessionId(1, 0))
                               /\ store = NewStore(t)
                               /\ accept = Accepted(t)
    /\ env = [dups |-> 0, faults |-> 0, events |-> 0, calls |-> <<>>, before |-> 0,
              finalizeCalled |-> FALSE, cleanupCalled |-> FALSE, returned |-> <<>>]

NextStore ==
    \/ StoreWriteChunk
    \/ StoreFinalize
    \/ StoreCleanup
    \/ StoreCloseDone
    \/ FsWriteDone
    \/ TxCompleteAct

SpecStore == InitStore /\ [][NextStore]_vars

\* the entries of writeQueue whose writeChunk promise resolved successfully
Resolved == {k \in DOMAIN strat.writeQueue : strat.writeQueue[k].st = "ok"}

\* the entries of writeQueue whose bytes the stream has written
OnDisk == {k \in DOMAIN strat.writeQueue : strat.writeQueue[k].data \in Range(store.fsDisk)}

RECURSIVE QueueBytes(_)
\* the total of data.byteLength over the entries S of writeQueue
QueueBytes(S) ==
    IF S = {} THEN 0
    ELSE LET k == CHOOSE j \in S : TRUE
         IN strat.writeQueue[k].data.len + QueueBytes(S \ {k})

\* the entries of writeQueue queued before finalize and cleanup, if called, began
\* to wait for the queue
QueuedBeforeWait ==
    {k \in DOMAIN strat.writeQueue :
        /\ strat.finalizePc # "idle" => k <= strat.finalizeAwait
        /\ strat.cleanupPc # "idle" => k <= strat.cleanupAwait}

\* the part of C29 about writeChunk calls issued before finalize and cleanup wait:
\* those that resolved have their bytes written, and when no call came later than
\* that and cleanup was not called, finalize returns their total
C29_BeforeWait ==
    strat.type = "filesystem" =>
        /\ Resolved \cap QueuedBeforeWait \subseteq OnDisk
        /\ env.returned # <<>> /\ ~env.cleanupCalled /\ Resolved \subseteq QueuedBeforeWait
              => env.returned[1] = QueueBytes(Resolved)

\* C29: on a FileSystemStrategy every writeChunk call whose promise resolved has had
\* its bytes written to the stream, and bytesWritten as finalize returned it is the
\* total of the bytes of the resolved writeChunk calls, also of the calls issued
\* while finalize or cleanup waited for the queue
C29_ResolvedWrites ==
    strat.type = "filesystem" =>
        /\ Resolved \subseteq OnDisk
        /\ env.returned # <<>> => env.returned[1] = QueueBytes(Resolved)

\* a writeChunk issued while finalize waited for the queue has resolved, its bytes
\* were never passed to the stream, and finalize returned
C29_LostWrite ==
    /\ strat.type = "filesystem"
    /\ env.returned # <<>>
    /\ \E k \in Resolved : /\ k > strat.finalizeAwait
                          /\ strat.writeQueue[k].data \notin Range(store.fsStream)

\* the chunk indices writeChunk was called with before finalize was called
WrittenBefore == {env.calls[k] : k \in 1..env.before}

\* the payloads of the chunks S of the file, by ascending chunk index
AscendingData(S) ==
    [p \in 1..Cardinality(S) |->
        LET i == CHOOSE j \in S : Cardinality({h \in S : h < j}) = p - 1
        IN ChunkData(i, SliceSize(fileSize, i))]

\* finalize has returned its result to a caller that has not called cleanup
FinalizeReturned ==
    /\ ~env.cleanupCalled
    /\ IF strat.type = "filesystem" THEN env.returned # <<>> ELSE page.htcPc = "hashing"

\* the content finalize produced: the file on disk behind the handle it returned,
\* or the File it returned
FinalContent == IF strat.type = "filesystem" THEN store.fsDisk ELSE page.verifyFile.content

\* were the writeChunk calls before finalize made in an order other than ascending
OutOfOrder == \E j, k \in 1..env.before : j < k /\ env.calls[j] > env.calls[k]

\* the part of C30 about the indexeddb and memory backends
C30_SortingBackends ==
    strat.type # "filesystem" /\ FinalizeReturned => FinalContent = AscendingData(WrittenBefore)

\* the indexeddb or memory backend returned a file of every chunk after the calls
\* came in an order that puts a later chunk first
C30_SortedWitness ==
    /\ strat.type = "indexeddb"
    /\ FinalizeReturned
    /\ OutOfOrder
    /\ env.before = TotalChunks(fileSize)

\* C30: in each of the three backends the content finalize produces is the
\* concatenation of the chunks written before it, by ascending chunk index, in
\* whatever order writeChunk was called
C30_IndexOrdered == FinalizeReturned => FinalContent = AscendingData(WrittenBefore)

\* the filesystem backend has returned from finalize and the file on disk holds a
\* chunk of higher index before one of lower index
C30_CallOrderOnDisk ==
    /\ strat.type = "filesystem"
    /\ FinalizeReturned
    /\ \E j, k \in DOMAIN store.fsDisk : j < k /\ store.fsDisk[j].bytes > store.fsDisk[k].bytes

(***************************************************************************)
(* A transfer whose TransferPage may unmount and mount again at any point, *)
(* with messages delivered a second time and a connection that is lost     *)
(* once while the page listens to its state.                               *)
(***************************************************************************)
\* the one connection state event of the transfer, delivered to the page's handler
ConnectionLost ==
    /\ stateChangeHandlerRef = "transfer"
    /\ env.events = 0
    /\ IceStateChange

\* a message of the transfer is delivered a second time, once
DeliverDupOnce ==
    /\ env.dups = 0
    /\ DeliverDup

\* files of one and of two chunks
RemountSizes == {1, CHUNK_SIZE + 1}

InitRemount ==
    /\ InitSender(RemountSizes, {"open"})
    /\ InitChannel(MaxChannel)
    /\ InitProviderOpen
    /\ InitReceiver(StrategyTypes)

NextRemount ==
    \/ SendFileStart
    \/ SendChunk
    \/ Drain
    \/ Deliver
    \/ DeliverDupOnce
    \/ MountTransferPage
    \/ UnmountTransferPage
    \/ TxCompleteAct
    \/ FsWriteDone
    \/ FsCloseDone
    \/ HashDone
    \/ SenderHandleComplete
    \/ ConnectionLost

SpecRemount == InitRemount /\ [][NextRemount]_vars

\* the receiver has started finalization (handleTransferComplete ran past its
\* guard) or cleanup (the state handler saw the connection fail or disconnect)
Ended == page.htcPc # "idle" \/ connectionState \in {"failed", "disconnected"}

\* this step wrote a chunk: a writeChunk call reached the backend (an entry of the
\* write chain, of the memory array, of the database buffer), or the fallback
\* list got a chunk
WriteStep ==
    \/ Len(strat'.writeQueue) > Len(strat.writeQueue)
    \/ Len(strat'.chunks) > Len(strat.chunks)
    \/ Len(strat'.buffer) > Len(strat.buffer)
    \/ Len(page'.chunksRef) > Len(page.chunksRef)

\* this step ran handleTransferComplete past its guard
FinalizeStep ==
    /\ ~page.transferCompleteRef /\ page'.transferCompleteRef
    /\ connectionState' = connectionState

\* the part of C31 about a page that stays mounted: while the handler is not
\* attached again, nothing is written and finalize is not invoked after the end
C31_WhileAttached ==
    [][Ended /\ attachCount' = attachCount /\ attachCount = 1
          => ~WriteStep /\ ~FinalizeStep]_vars

\* finalization started on a page whose handler was attached once, and the handler
\* was given a message after the 'complete' it processed
C31_AttachedWitness ==
    /\ page.htcPc # "idle"
    /\ attachCount = 1
    /\ \E k \in DOMAIN handled : handled[k].type = "complete" /\ k < Len(handled)

\* C31: once the receiver has started finalization or cleanup, no message delivered
\* afterwards writes a chunk to the storage backend or to the fallback list or makes
\* handleTransferComplete invoke finalize again, also when the handler was attached
\* again in between.  The steps judged are those that do not attach the handler.
C31_NoWritesAfterEnd ==
    [][Ended /\ attachCount' = attachCount => ~WriteStep /\ ~FinalizeStep]_vars

\* the handler was attached again after the transfer had ended, and a chunk was
\* then written to the backend or the fallback list
C31_WriteAfterEnd ==
    /\ Ended
    /\ attachCount > 1
    /\ ~page.transferCompleteRef
    /\ strat.chunks # <<>> \/ strat.buffer # <<>> \/ page.chunksRef # <<>>

(***************************************************************************)
(* A fault-free transfer, every message delivered once, whose TransferPage *)
(* may unmount and mount again at any point.                               *)
(***************************************************************************)
NextReattach ==
    \/ SendFileStart
    \/ SendChunk
    \/ Drain
    \/ Deliver
    \/ MountTransferPage
    \/ UnmountTransferPage
    \/ TxCompleteAct
    \/ FsWriteDone
    \/ FsCloseDone
    \/ HashDone
    \/ SenderHandleComplete

SpecReattach == InitDup /\ [][NextReattach]_vars

\* the part of C32 that holds: no chunk index is stored twice and every payload
\* stored is stored under its own header's index
C32_NoneTwice ==
    /\ \A j, k \in DOMAIN AppliedSeq : AppliedSeq[j].index = AppliedSeq[k].index => j = k
    /\ StoredPairs \subseteq ExpectedPairs(fileSize)

\* the handler was attached again during the transfer and chunks were stored
\* before and after that
C32_NoneTwiceWitness ==
    /\ attachCount > 1
    /\ replayed
    /\ TransferDone
    /\ StoredPairs = ExpectedPairs(fileSize)
    /\ TotalChunks(fileSize) > 1

\* C32: whenever the handler is detached and attached again during the transfer,
\* no chunk index is stored twice, every payload stored is stored under its own
\* header's index, and when the transfer is done every chunk has been stored
C32_RemountTolerant ==
    /\ C32_NoneTwice
    /\ TransferDone => StoredPairs = ExpectedPairs(fileSize)

\* the page mounted again between a chunk header and its payload, and the transfer
\* is done with a chunk missing from storage
C32_ChunkDropped ==
    /\ attachCount > 1
    /\ TransferDone
    /\ \E e \in ExpectedPairs(fileSize) : e \notin StoredPairs

(***************************************************************************)
(* The sender alone on a channel whose transport takes the buffered bytes  *)
(* at its own pace, whole messages or part of a payload.  Here channel is  *)
(* what the sender's buffer still holds: a payload the transport has taken *)
(* part of stays in it with the bytes that are left.                       *)
(***************************************************************************)
\* the threshold of the wait loop of sendFile
Threshold == CHUNK_SIZE * BACKPRESSURE_CHUNKS

\* files of the most chunks, the last chunk full or short
PressureSizes == {SendChunks * CHUNK_SIZE - 7, SendChunks * CHUNK_SIZE}

\* the place in channel of the oldest message still buffered
OldestUnsent == Len(channel) - unsent + 1

\* the bytes the sender's buffer holds
OutboundBytes == SumBytes(SubSeq(channel, OldestUnsent, Len(channel)))

\* the transport takes part of the oldest buffered payload: as many bytes as bring
\* the buffer down to the threshold or to one byte above it
DrainPart ==
    /\ unsent > 0
    /\ channel[OldestUnsent].type = "binary"
    /\ \E target \in {Threshold, Threshold + 1} :
          LET b == OutboundBytes - target
          IN /\ 0 < b /\ b < channel[OldestUnsent].size
             /\ channel' = [channel EXCEPT ![OldestUnsent].size = @ - b]
    /\ UNCHANGED <<sndVars, unsent, chanCap, relay, rtcVars, rxVars>>

InitPressure ==
    /\ InitSender(PressureSizes, {"open"})
    /\ InitChannel(SendCap)
    /\ InitProviderOpen
    /\ InitReceiver({"memory"})

NextPressure ==
    \/ SendFileStart
    \/ SendChunk
    \/ Drain
    \/ DrainPart

SpecPressure == InitPressure /\ [][NextPressure]_vars

\* the bytes of the header of the chunk sendFile sent last
LastHeaderBytes == MsgBytes(HeaderMsg(sndI - 1, SliceSize(fileSize, sndI - 1)))

\* this step sent a chunk
SendsChunk == sndI' = sndI + 1

\* what this step handed to the channel
SentNow == SubSeq(sent', Len(sent) + 1, Len(sent'))

\* a chunk goes out only when bufferedAmount is at most the threshold, its header
\* and its payload in one step with nothing between them
SentUnderThreshold ==
    SendsChunk =>
        /\ OutboundBytes <= Threshold
        /\ Len(SentNow) >= 2
        /\ SentNow[1] = HeaderMsg(sndI, SliceSize(fileSize, sndI))
        /\ SentNow[2] = BinaryMsg(sndI, SliceSize(fileSize, sndI))

\* C33 as stated: a chunk is sent only at a moment when bufferedAmount is at most
\* 10 x 64 KiB, header and payload with no suspension point between them, and
\* bufferedAmount never exceeds the threshold by more than one header plus one chunk
C33_AsStated ==
    /\ [][SentUnderThreshold]_vars
    /\ [](OutboundBytes <= Threshold + (IF sndI = 0 THEN 0 ELSE LastHeaderBytes + CHUNK_SIZE))

\* C33: a chunk is sent only at a moment when bufferedAmount is at most 10 x 64 KiB,
\* header and payload with no suspension point between them, and bufferedAmount
\* never exceeds the threshold by more than one header plus one chunk, plus the
\* completion signal that follows the last chunk without a look at the buffer
C33_Backpressure ==
    /\ [][SentUnderThreshold]_vars
    /\ [](OutboundBytes <= Threshold
              + (IF sndI = 0 THEN 0 ELSE LastHeaderBytes + CHUNK_SIZE)
              + (IF sndPc = "done" THEN MsgBytes(CompleteMsg) ELSE 0))

\* the buffer stood exactly at the threshold when the last chunk, a full one, went
\* out with the completion signal behind it
C33_Witness ==
    /\ sndPc = "done"
    /\ fileSize = SendChunks * CHUNK_SIZE
    /\ OutboundBytes = Threshold + LastHeaderBytes + CHUNK_SIZE + MsgBytes(CompleteMsg)

(***************************************************************************)
(* chunkFile(file, chunkSize): the async generator, one step per chunk it  *)
(* yields, consumed to its end by a caller that then hands the chunks to   *)
(* reassembleChunks in some order.  Files and payloads are byte sequences. *)
(***************************************************************************)
\* the longest file given to chunkFile, in bytes
MaxFileLen == 5

\* the files: every byte sequence over 1 and 2 of up to MaxFileLen bytes, held as
\* blobs of one byte each
ByteFiles ==
    UNION {{MakeFile([k \in 1..n |-> <<bytes[k]>>]) : bytes \in [1..n -> {1, 2}]}
           : n \in 0..MaxFileLen}

\* the chunk sizes the callers pass
ChunkSizes == 1..MaxPartLen

\* the orders in which the caller hands n chunks on: the permutations of 1..n
Orders(n) == {f \in [1..n -> 1..n] : \A j, k \in 1..n : f[j] = f[k] => j = k}

\* a division that rounds down
FloorDiv(a, b) == a \div b

\* Math.ceil(a / b) for a >= 0 and b > 0
CeilDiv(a, b) == (a + b - 1) \div b

\* file.slice(start, end), read as a Uint8Array
slice(file, start, end) ==
    [p \in 1..(end - start) |-> FileBytes(file)[start + p]]

\* the value of one `yield` of chunkFile, for the loop variable i
yielded(file, chunkSize, totalChunks, i) ==
    LET start == i * chunkSize
        end == Min(start + chunkSize, FileSize(file))
    IN [index |-> i, total |-> totalChunks, data |-> slice(file, start, end),
        size |-> end - start]

\* a caller about to call chunkFile(file, chunkSize)
NewSplit(file, chunkSize) ==
    [dups |-> 0, faults |-> 0, events |-> 0, file |-> file, chunkSize |-> chunkSize,
     pc |-> "idle", totalChunks |-> 0, i |-> 0, out |-> <<>>,
     called |-> FALSE, chunks |-> <<>>, result |-> NoFile]

\* the first next() on the generator runs it up to its loop
ChunkFileStart ==
    /\ env.pc = "idle"
    /\ env' = [env EXCEPT !.pc = "loop", !.i = 0,
                          !.totalChunks = CeilDiv(FileSize(env.file), env.chunkSize)]
    /\ UNCHANGED <<sndVars, chanVars, rtcVars, page, strat, store, accept>>

\* one turn of the loop up to its yield, or the end of the generator
ChunkFileNext ==
    /\ env.pc = "loop"
    /\ env' = IF env.i < env.totalChunks
              THEN [env EXCEPT !.out = Append(@, yielded(env.file, env.chunkSize,
                                                         env.totalChunks, env.i)),
                               !.i = @ + 1]
              ELSE [env EXCEPT !.pc = "done"]
    /\ UNCHANGED <<sndVars, chanVars, rtcVars, page, strat, store, accept>>

\* reassembleChunks on the chunks the generator yielded, in some order
ReassembleYielded ==
    /\ env.pc = "done" /\ ~env.called
    /\ \E order \in Orders(Len(env.out)) :
          LET chunks == [k \in 1..Len(env.out) |-> env.out[order[k]]]
          IN env' = [env EXCEPT !.called = TRUE, !.chunks = chunks,
                                !.result = reassembleChunks(chunks, FileName, MimeType)]
    /\ UNCHANGED <<sndVars, chanVars, rtcVars, page, strat, store, accept>>

InitSplit ==
    /\ InitSender({0}, {"connecting"})
    /\ InitChannel(MaxChannel)
    /\ InitProviderOpen
    /\ page = NewPage(fileSize, FALSE)
    /\ strat = NoStrategy
    /\ store = NewStore("none")
    /\ accept = Accepted("memory")
    /\ \E file \in ByteFiles, chunkSize \in ChunkSizes : env = NewSplit(file, chunkSize)

NextSplit ==
    \/ ChunkFileStart
    \/ ChunkFileNext
    \/ ReassembleYielded

SpecSplit == InitSplit /\ [][NextSplit]_vars

\* ceil(size / c), found by search
CeilOf(size, c) ==
    CHOOSE n \in 0..size : n * c >= size /\ (n = 0 \/ (n - 1) * c < size)

\* the sum of the size fields of the first n chunks yielded
YieldedSize(n) ==
    LET f[k \in 0..n] == IF k = 0 THEN 0 ELSE f[k - 1] + env.out[k].size
    IN  f[n]

\* C34: chunkFile(file, c) yields exactly ceil(size / c) chunks with the indices
\* 0, 1, ..., n-1 in ascending order and total = n in each, every chunk of size c
\* except possibly the last, whose size is between 1 and c, the sizes summing to
\* file.size and each the length of the chunk's data; an empty file yields no
\* chunk; and reassembleChunks on the yielded chunks in any order gives a file
\* with the bytes of the file that was split
C34_ChunkSplit ==
    LET n == CeilOf(FileSize(env.file), env.chunkSize)
        c == env.chunkSize
    IN /\ Len(env.out) <= n
       /\ \A k \in DOMAIN env.out :
             /\ env.out[k].index = k - 1
             /\ env.out[k].total = n
             /\ env.out[k].size = Len(env.out[k].data)
             /\ k < n => env.out[k].size = c
             /\ k = n => 1 <= env.out[k].size /\ env.out[k].size <= c
       /\ env.pc = "done" =>
             /\ Len(env.out) = n
             /\ YieldedSize(n) = FileSize(env.file)
             /\ FileSize(env.file) = 0 => env.out = <<>>
       /\ env.called => FileBytes(env.result) = FileBytes(env.file)

\* a file of five bytes was split into chunks of two bytes, the last chunk one byte,
\* and reassembled from the chunks in the order 2, 0, 1
C34_Witness ==
    /\ env.called
    /\ env.chunkSize = 2
    /\ FileBytes(env.file) = <<1, 2, 2, 1, 2>>
    /\ Len(env.out) = 3
    /\ env.out[3] = [index |-> 2, total |-> 3, data |-> <<2>>, size |-> 1]
    /\ env.chunks[1].index = 2 /\ env.chunks[2].index = 0
    /\ FileBytes(env.result) = <<1, 2, 2, 1, 2>>

(***************************************************************************)
(* A storage strategy whose cleanup is called twice.  The first call is    *)
(* the one whose position strat.cleanupPc holds; env.second holds the      *)
(* position of the second call, put in its place while the second call     *)
(* runs.  env.called counts the cleanup calls, env.tx lists the database   *)
(* transaction of each call (0 if it made none) and env.out what became    *)
(* of the promise of each call.                                            *)
(***************************************************************************)
\* a cleanup call not made yet
NotCalled == [pc |-> "idle", await |-> 0]

\* the receiver state with the cleanup call c in place of the first one
WithCall(R, c) == [R EXCEPT !.strat.cleanupPc = c.pc, !.strat.cleanupAwait = c.await]

\* the position of the cleanup call that state R holds
CallOf(R) == [pc |-> R.strat.cleanupPc, await |-> R.strat.cleanupAwait]

\* transaction.oncomplete of cleanup: this.db.close() throws when db is null, and
\* the promise of the call is then never resolved
OncompleteCleanup(R) == IF R.strat.db THEN "resolved" ELSE "threw"

\* the promise of a cleanup call that has just been made and left state R: a call
\* that created a transaction waits for it, a filesystem call waits until its
\* position is "done", any other call has returned
OutcomeAtCall(R) ==
    IF R.store.txCount > store.txCount THEN "pending"
    ELSE IF R.strat.type = "filesystem" /\ R.strat.cleanupPc # "done" THEN "pending"
    ELSE "resolved"

\* the promises of the two calls once the calls are at positions c1 and c2
OutcomesAt(out, type, c1, c2) ==
    [i \in DOMAIN out |->
        IF type = "filesystem" /\ (IF i = 1 THEN c1 ELSE c2).pc = "done"
        THEN "resolved" ELSE out[i]]

\* the task of the receiver left state R with the first call in place: the
\* continuations of the second call run after those of the first
TwiceTask(R, e) ==
    LET R2 == RunMicro(WithCall(R, e.second))
        c1 == CallOf(R)
        c2 == CallOf(R2)
    IN StoreTask(WithCall(R2, c1),
                 [e EXCEPT !.second = c2,
                           !.out = OutcomesAt(e.out, R.strat.type, c1, c2)])

\* strategy.writeChunk(idx, chunk), before the first cleanup call
TwiceWriteChunk ==
    /\ env.called = 0
    /\ \E idx \in StoreIndices \ Range(env.calls) :
          TwiceTask(RunMicro(WriteChunk(RxState, idx,
                                        ChunkData(idx, SliceSize(fileSize, idx)))),
                    [env EXCEPT !.calls = Append(@, idx)])

\* has the finalize that was called returned
FinalizeSettled ==
    /\ strat.finalizePc \notin {"awaitQueue", "closing"}
    /\ store.idbTx = <<>>

\* strategy.finalize(), before the first cleanup call
TwiceFinalize ==
    /\ ~env.finalizeCalled
    /\ env.called = 0
    /\ TwiceTask(RunMicro(Finalize(RxState)), [env EXCEPT !.finalizeCalled = TRUE])

\* the first strategy.cleanup(), after finalize has returned if it was called
TwiceCleanupFirst ==
    /\ env.called = 0
    /\ env.finalizeCalled => FinalizeSettled
    /\ LET R == RunMicro(Cleanup(RxState))
       IN TwiceTask(R, [env EXCEPT !.called = 1,
                                   !.tx = Append(@, IF R.store.txCount > store.txCount
                                                    THEN R.store.txCount ELSE 0),
                                   !.out = Append(@, OutcomeAtCall(R))])

\* the second strategy.cleanup(), while the first is in progress or after it
CleanupAgain ==
    /\ env.called = 1
    /\ LET R == RunMicro(Cleanup(WithCall(RxState, NotCalled)))
           c1 == CallOf(RxState)
           c2 == CallOf(R)
           out == Append(env.out, OutcomeAtCall(R))
       IN StoreTask(WithCall(R, c1),
                    [env EXCEPT !.called = 2,
                                !.second = c2,
                                !.inProgress = (env.out[1] = "pending"),
                                !.tx = Append(@, IF R.store.txCount > store.txCount
                                                 THEN R.store.txCount ELSE 0),
                                !.out = OutcomesAt(out, R.strat.type, c1, c2)])

\* the head transaction of the database commits; when it is the transaction of a
\* cleanup call, its oncomplete settles the promise of that call
TwiceTxComplete ==
    /\ store.idbTx # <<>>
    /\ LET tx == Head(store.idbTx)
       IN TwiceTask(RunMicro(TxComplete(RxState)),
                    [env EXCEPT !.out = [i \in DOMAIN env.out |->
                                            IF env.tx[i] = tx.id
                                            THEN OncompleteCleanup(RxState)
                                            ELSE env.out[i]]])

\* writable.write(data) resolves
TwiceWriteDone ==
    \E k \in Writing(RxState) : TwiceTask(RunMicro(FsWriteResolved(RxState, k)), env)

\* writable.close() resolves for the call that waits for it: finalize, the
\* first cleanup call or the second
TwiceCloseDone ==
    /\ store.fsStreamState = "closing"
    /\ IF strat.finalizePc = "closing" \/ strat.cleanupPc = "closing"
       THEN TwiceTask(RunMicro(FsCloseResolved(RxState)), env)
       ELSE LET R == RunMicro(FsCloseResolved(WithCall(RxState, env.second)))
            IN TwiceTask(WithCall(R, CallOf(RxState)), [env EXCEPT !.second = CallOf(R)])

InitTwice ==
    /\ InitSender({SmallChunks * CHUNK_SIZE}, {"open"})
    /\ InitChannel(MaxChannel)
    /\ InitProviderOpen
    /\ page = NewPage(fileSize, TRUE)
    /\ \E t \in StrategyTypes : /\ strat = NewStrategy(t, 1, SessionId(1, 0))
                               /\ store = NewStore(t)
                               /\ accept = Accepted(t)
    /\ env = [dups |-> 0, faults |-> 0, events |-> 0, calls |-> <<>>,
              finalizeCalled |-> FALSE, called |-> 0, second |-> NotCalled,
              inProgress |-> FALSE, tx |-> <<>>, out |-> <<>>]

NextTwice ==
    \/ TwiceWriteChunk
    \/ TwiceFinalize
    \/ TwiceCleanupFirst
    \/ CleanupAgain
    \/ TwiceTxComplete
    \/ TwiceWriteDone
    \/ TwiceCloseDone

SpecTwice == InitTwice /\ [][NextTwice]_vars

\* the records of the strategy's session in the object store
SessionRecords == {r \in store.idbStore : r.sessionId = strat.sessionId}

\* what cleanup works on: the fields of the strategy it assigns, the records of
\* the session and the save stream
CleanupState ==
    [chunks |-> strat.chunks, buffer |-> strat.buffer, db |-> strat.db,
     writable |-> strat.writable, fileHandle |-> strat.fileHandle,
     isClosed |-> strat.isClosed, bytesWritten |-> strat.bytesWritten,
     records |-> SessionRecords, stream |-> store.fsStreamState]

\* the state one cleanup call leaves once it has completed
CleanedUp ==
    [chunks |-> <<>>, buffer |-> <<>>, db |-> FALSE, writable |-> FALSE,
     fileHandle |-> FALSE, isClosed |-> (strat.type = "filesystem"), bytesWritten |-> 0,
     records |-> {},
     stream |-> IF strat.type = "filesystem" THEN "closed" ELSE "none"]

\* nothing the cleanup calls made is still to happen
CleanupQuiet ==
    /\ \A i \in DOMAIN env.out : env.out[i] # "pending"
    /\ store.idbTx = <<>>
    /\ store.fsStreamState # "closing"

\* C35, for the memory and filesystem backends and for a second call made after
\* the first has completed: no cleanup call ends in an error, and once the
\* calls that were made have completed, one or two, the strategy, the session's
\* records and the save stream are in the one state a single call leaves
C35_Completes ==
    /\ (strat.type # "indexeddb" \/ ~env.inProgress) =>
          \A i \in DOMAIN env.out : env.out[i] # "threw"
    /\ (env.called >= 1 /\ CleanupQuiet) => CleanupState = CleanedUp

\* a second call made while the first was in progress and one made after finalize
\* and after the first call completed have both completed
C35_SecondCompleted ==
    /\ env.called = 2 /\ env.out = <<"resolved", "resolved">>
    /\ strat.type = "filesystem" /\ env.inProgress
    /\ CleanupState = CleanedUp /\ Len(store.fsDisk) = SmallChunks

\* C35: a second cleanup call, made after the first completed, while it is in
\* progress or after finalize, completes without error
C35_Idempotent == \A i \in DOMAIN env.out : env.out[i] # "threw"

\* the second call of the indexeddb backend, made while the first was in progress,
\* has thrown in its oncomplete and its promise stays unsettled
C35_SecondNeverCompletes ==
    /\ strat.type = "indexeddb" /\ env.called = 2 /\ env.inProgress
    /\ env.out = <<"resolved", "threw">>

\* the events the relay passes from one party of a session to the other
RelayedEvents ==
    {"file-meta", "offer", "answer", "ice-candidate", "accept-transfer", "reject-transfer",
     "transfer-complete", "transfer-error"}

\* the sockets in the slots of the session
Parties(session) == {session.senderSocket, session.receiverSocket} \ {NoSocket}

\* the part of C36 about who is reached: the slots of a session change only when
\* a sender-join or a receiver-join for its code is handled, and then to the
\* joining socket; an offer, answer, candidate, metadata or verdict handled from
\* a socket is emitted only to a socket in a slot of the session that socket is
\* in at that time
C36_RelayStep ==
    LET socket == env'.last.socket
        emitted == env'.last.emitted
        k == findSessionBySocket(env.sessions, socket)
    IN  /\ \A j \in DOMAIN env'.sessions :
              LET i == getSession(env.sessions, env'.sessions[j].code)
              IN  i # 0 =>
                     /\ env'.sessions[j].senderSocket # env.sessions[i].senderSocket =>
                           /\ Handles("sender-join")
                           /\ env'.last.code = env.sessions[i].code
                           /\ env'.sessions[j].senderSocket = socket
                     /\ env'.sessions[j].receiverSocket # env.sessions[i].receiverSocket =>
                           /\ Handles("receiver-join")
                           /\ env'.last.code = env.sessions[i].code
                           /\ env'.sessions[j].receiverSocket = socket
        /\ (env' # env /\ env'.last.handler \in RelayedEvents) =>
              \A e \in DOMAIN emitted :
                 k # 0 /\ emitted[e].to \in Parties(env.sessions[k])

C36_BetweenParties == [][C36_RelayStep]_vars

\* an answer of the socket in the receiver slot has been passed to the other
\* socket, which is in the sender slot
C36_RelayedWitness ==
    /\ env.last.handler = "answer"
    /\ Len(env.last.emitted) = 1
    /\ env.last.emitted[1].to # env.last.socket
    /\ \E k \in DOMAIN env.sessions :
          /\ env.sessions[k].receiverSocket = env.last.socket
          /\ env.sessions[k].senderSocket = env.last.emitted[1].to

\* C36: a sender-join for a code whose sender slot holds another socket leaves
\* that socket in the slot, and so does a receiver-join for a code whose receiver
\* slot holds another socket
C36_Step ==
    LET socket == env'.last.socket
        k == getSession(env.sessions, env'.last.code)
        j == getSession(env'.sessions, env'.last.code)
    IN  /\ (Handles("sender-join") /\ k # 0
               /\ env.sessions[k].senderSocket \notin {NoSocket, socket}) =>
              j # 0 /\ env'.sessions[j].senderSocket = env.sessions[k].senderSocket
        /\ (Handles("receiver-join") /\ k # 0
               /\ env.sessions[k].receiverSocket \notin {NoSocket, socket}) =>
              j # 0 /\ env'.sessions[j].receiverSocket = env.sessions[k].receiverSocket

C36_NotDisplaced == [][C36_Step]_vars

\* the sender slot was taken over: the socket that joined as sender last is in the
\* sender slot, and an offer of another connected socket, which is in no session,
\* was passed to nobody
C36_CutOff ==
    /\ env.last.handler = "offer"
    /\ env.last.emitted = <<>>
    /\ findSessionBySocket(env.sessions, env.last.socket) = 0
    /\ \E k \in DOMAIN env.sessions :
          /\ env.sessions[k].senderSocket \notin {NoSocket, env.last.socket}
          /\ env.sessions[k].receiverSocket = NoSocket

\* the file the ConfirmPage was offered is larger than INDEXEDDB_MAX, 2 GiB
OverDatabaseLimit == accept.sizeKiB > INDEXEDDB_MAX_KIB

\* the part of C37 about the choice of detectBestStrategy: where the browser is
\* mobile or has no File System Access API, the indexeddb backend is not tried for
\* a file of more than 2 GiB, and the backend initialised is memory
C37_DetectedChoice ==
    (OverDatabaseLimit /\ (accept.mobile \/ ~accept.hasFS)) =>
        /\ \A k \in DOMAIN accept.tried : accept.tried[k].type = "memory"
        /\ accept.pc = "done" => strat.type = "memory"

\* a mobile browser with a database was offered a file of more than 2 GiB and
\* initialised the memory backend
C37_DetectedWitness ==
    /\ OverDatabaseLimit /\ accept.mobile /\ accept.hasIDB
    /\ accept.pc = "done"
    /\ accept.tried = <<[type |-> "memory", outcome |-> "ok"]>>
    /\ strat.type = "memory"

\* C37: the indexeddb backend is never the backend initialised for a file of more
\* than 2 GiB, also not when the fallback chain reaches it after a failed or
\* cancelled init of the filesystem backend
C37_DatabaseLimit ==
    OverDatabaseLimit =>
        /\ strat.type # "indexeddb"
        /\ \A k \in DOMAIN accept.tried :
              ~(accept.tried[k].type = "indexeddb" /\ accept.tried[k].outcome = "ok")

\* the user cancelled the file picker for a file of more than 2 GiB and the
\* indexeddb backend was initialised and stored
C37_OverLimitInDatabase ==
    /\ OverDatabaseLimit
    /\ accept.pc = "done"
    /\ accept.tried = <<[type |-> "filesystem", outcome |-> "USER_CANCELLED"],
                        [type |-> "indexeddb", outcome |-> "ok"]>>
    /\ strat.type = "indexeddb"
    /\ accept.emitted = <<"accept-transfer">>

(***************************************************************************)
(* The carry buffer of the incremental SHA-256, under SpecHash.            *)
(***************************************************************************)
\* the bytes of the blocks of a chaining value, in the order they were compressed
Flatten(h) ==
    [p \in 1..(BLOCK_BYTES * Len(h)) |->
        h[((p - 1) \div BLOCK_BYTES) + 1][((p - 1) % BLOCK_BYTES) + 1]]

RECURSIVE BigEndian(_)
\* the number whose base-256 digits, most significant first, are the bytes
BigEndian(bytes) ==
    IF bytes = <<>> THEN 0
    ELSE BigEndian(SubSeq(bytes, 1, Len(bytes) - 1)) * 256 + bytes[Len(bytes)]

\* the first multiple of BLOCK_BYTES that has room for n bytes, the byte 0x80 and
\* the eight bytes of the length
PaddedLength(n) ==
    CHOOSE m \in 0..(n + 2 * BLOCK_BYTES) :
        /\ m % BLOCK_BYTES = 0
        /\ m >= n + 9
        /\ m - BLOCK_BYTES < n + 9

\* C38: after every sha256Update call bufferLength is in 0..63, totalLength is the
\* number of bytes passed so far, 64 times the number of blocks compressed plus
\* bufferLength is totalLength, and the blocks compressed are the consecutive
\* 64-byte blocks of the bytes passed; sha256Final has compressed the message, the
\* byte 0x80, zeros up to a multiple of 64 less 8, and the number of bits of the
\* message as eight bytes, most significant first, the high four of them its high
\* 32 bits and the low four its low 32 bits
C38_CarryBuffer ==
    LET state == env.state
        message == Message(env.size)
        padded == Flatten(env.digest)
        end == PaddedLength(env.size)
    IN  /\ 0 <= state.bufferLength /\ state.bufferLength < 64
        /\ state.totalLength = env.offset
        /\ 64 * Len(state.h) + state.bufferLength = state.totalLength
        /\ \A k \in DOMAIN state.h :
              state.h[k] = SubSeq(message, 64 * (k - 1) + 1, 64 * k)
        /\ env.done =>
              /\ Len(padded) = end
              /\ SubSeq(padded, 1, env.size) = message
              /\ padded[env.size + 1] = 128
              /\ \A p \in (env.size + 2)..(end - 8) : padded[p] = 0
              /\ BigEndian(SubSeq(padded, end - 7, end - 4)) = 0
              /\ BigEndian(SubSeq(padded, end - 3, end)) = 8 * env.size

\* a message of 120 bytes was fed in three slices, one of which completed a block
\* from carried bytes; 56 bytes were carried when sha256Final was called, so the
\* padding ran into a third block
C38_Witness ==
    /\ env.done
    /\ env.size = 120
    /\ env.updates = 3
    /\ env.completed
    /\ env.state.bufferLength = PAD_LIMIT
    /\ Len(env.state.h) = 1
    /\ Len(env.digest) = 3

====
